---- MODULE Spec2Model ----
(***************************************************************************)
(* Model of the SelfAgent decision pipeline: RiskAssessmentEngine,         *)
(* IntelligentRouter, SkillMatcher (with SkillRepository) and              *)
(* RecommendationEngine.                                                   *)
(*                                                                         *)
(* Numbers.  Emotion scores, arousal, trigger signals, the slope and the   *)
(* audio/video features are fixed-point: the integer n stands for n/100    *)
(* (0.35 is 35; tempo and jitter are kept in their own units).  Products   *)
(* of two such numbers are kept exact at n/10000.                          *)
(*                                                                         *)
(* Names.  Emotion labels are the program's Chinese labels, written here   *)
(* in ASCII: self_harm = 自伤冲动, despair = 绝望, agitation = 激越,       *)
(* emptiness = 空虚感, shame = 羞愧, sadness = 悲伤, anxiety = 焦虑,       *)
(* fear = 恐惧, anger = 愤怒, guilt = 内疚, disgust = 厌恶,                 *)
(* loneliness = 孤独.  A text is a sequence of characters; the Chinese     *)
(* characters of the default crisis keywords are written as their pinyin   *)
(* syllable ("zi", "sha" for 自杀).                                        *)
(***************************************************************************)
EXTENDS Integers, Sequences, FiniteSets, TLC

VARIABLES
    emotion_history,  \* RiskAssessmentEngine.emotion_history
    riskCalls,        \* the evaluate_risk calls made so far: <<[args, result]>>
    crisis_keywords,  \* IntelligentRouter.crisis_keywords, in its iteration order
    l2_threshold,     \* IntelligentRouter.l2_threshold
    routeCall,        \* the route calls made so far: <<[args, result]>>
    skills,           \* the table dbt_skills: id -> row
    rules,            \* the table skill_matching_rules: id -> row
    matchCall,        \* the match calls made so far:
                      \* <<[request, max_skills, result]>>
    settings,         \* get_settings().recommendation
    recommendCall,    \* the recommend calls made so far
    conversation_history,  \* EmotionRecognitionEngine.conversation_history:
                           \* user_id -> list of records
    analyzeCalls,     \* the analyze calls in progress: call -> [pc, user_id, ...]
    matchRun          \* a match in progress, between its repository reads

riskVars == <<emotion_history, riskCalls>>

routerVars == <<crisis_keywords, l2_threshold, routeCall>>

repoVars == <<skills, rules>>

dbtVars == <<repoVars, matchCall, settings, recommendCall>>

concVars == <<conversation_history, analyzeCalls, matchRun>>

vars == <<riskVars, routerVars, dbtVars, concVars>>

\* no analyze call and no split match in progress
Idle ==
    /\ conversation_history = <<>>
    /\ analyzeCalls = <<>>
    /\ matchRun = [pc |-> "idle"]

----------------------------------------------------------------------------
(* Helpers *)

Min(a, b) == IF a < b THEN a ELSE b

Max(a, b) == IF a > b THEN a ELSE b

\* dict.get(k, 0.0)
Get(d, k) == IF k \in DOMAIN d THEN d[k] ELSE 0

Last(s) == s[Len(s)]

EmotionNames ==
    {"emptiness", "shame", "agitation", "self_harm", "anger", "sadness",
     "anxiety", "fear", "disgust", "guilt", "loneliness", "despair"}

ZeroEmotions == [e \in EmotionNames |-> 0]

----------------------------------------------------------------------------
(* RiskAssessmentEngine  (src/app/services/intervention/dbt_intervention.py) *)

max_history == 100

RiskLevels == <<"LOW", "MEDIUM", "HIGH", "CRITICAL">>

\* position of a level in the order LOW < MEDIUM < HIGH < CRITICAL
RiskRank(level) == CHOOSE i \in 1..4 : RiskLevels[i] = level

\* the five emotions _calculate_risk_level sums
risk_negative_total(emotion_features) ==
    Get(emotion_features, "sadness") + Get(emotion_features, "anxiety")
    + Get(emotion_features, "fear") + Get(emotion_features, "shame")
    + Get(emotion_features, "guilt")

\* risk_score with the two despair tiers' increments exchanged
risk_score_despair_tiers_swapped(emotion_features, emotion_slope, conversation_context) ==
    LET self_harm == Get(emotion_features, "self_harm")
        despair   == Get(emotion_features, "despair")
        agitation == Get(emotion_features, "agitation")
        emptiness == Get(emotion_features, "emptiness")
        negative_total == risk_negative_total(emotion_features)
    IN    (IF self_harm > 70 THEN 40 ELSE IF self_harm > 40 THEN 20 ELSE 0)
        + (IF despair > 70 THEN 15 ELSE IF despair > 40 THEN 30 ELSE 0)
        + (IF agitation > 70 THEN 20 ELSE IF agitation > 40 THEN 10 ELSE 0)
        + (IF emotion_slope > 30 THEN 25 ELSE IF emotion_slope > 10 THEN 15 ELSE 0)
        + (IF negative_total > 300 THEN 15 ELSE IF negative_total > 200 THEN 10 ELSE 0)
        + (IF "escalation_pattern" \in conversation_context THEN 10 ELSE 0)
        + (IF "self_critical_pattern" \in conversation_context THEN 5 ELSE 0)
        + (IF emptiness > 60 THEN 10 ELSE 0)

\* the additive risk score of _calculate_risk_level, before the level mapping
risk_score(emotion_features, emotion_slope, conversation_context) ==
    LET self_harm == Get(emotion_features, "self_harm")
        despair   == Get(emotion_features, "despair")
        agitation == Get(emotion_features, "agitation")
        emptiness == Get(emotion_features, "emptiness")
        negative_total == risk_negative_total(emotion_features)
    IN    (IF self_harm > 70 THEN 40 ELSE IF self_harm > 40 THEN 20 ELSE 0)
        + (IF despair > 70 THEN 30 ELSE IF despair > 40 THEN 15 ELSE 0)
        + (IF agitation > 70 THEN 20 ELSE IF agitation > 40 THEN 10 ELSE 0)
        + (IF emotion_slope > 30 THEN 25 ELSE IF emotion_slope > 10 THEN 15 ELSE 0)
        + (IF negative_total > 300 THEN 15 ELSE IF negative_total > 200 THEN 10 ELSE 0)
        + (IF "escalation_pattern" \in conversation_context THEN 10 ELSE 0)
        + (IF "self_critical_pattern" \in conversation_context THEN 5 ELSE 0)
        + (IF emptiness > 60 THEN 10 ELSE 0)

level_of_score(score) ==
    IF score >= 70 THEN "CRITICAL"
    ELSE IF score >= 50 THEN "HIGH"
    ELSE IF score >= 30 THEN "MEDIUM"
    ELSE "LOW"

calculate_risk_level(emotion_features, emotion_slope, conversation_context) ==
    level_of_score(risk_score(emotion_features, emotion_slope, conversation_context))

\* calculate_urgency_score with the slope term not doubled
calculate_urgency_score_slope_not_doubled(emotion_features, emotion_slope) ==
    LET urgency ==
              Get(emotion_features, "self_harm") * 35
            + Get(emotion_features, "despair") * 25
            + Get(emotion_features, "agitation") * 15
            + Get(emotion_features, "anxiety") * 10
            + Get(emotion_features, "sadness") * 10
            + Min(emotion_slope, 100) * 5
    IN  Min(urgency, 10000)

\* urgency in 1/10000: weights 0.35, 0.25, 0.15, 0.10, 0.10 and 0.05 on
\* min(slope * 2, 1.0); only an upper clamp is applied
calculate_urgency_score(emotion_features, emotion_slope) ==
    LET urgency ==
              Get(emotion_features, "self_harm") * 35
            + Get(emotion_features, "despair") * 25
            + Get(emotion_features, "agitation") * 15
            + Get(emotion_features, "anxiety") * 10
            + Get(emotion_features, "sadness") * 10
            + Min(emotion_slope * 2, 100) * 5
    IN  Min(urgency, 10000)

extract_trigger_signals(emotion_features, emotion_slope) ==
    [self_harm_impulse |-> Get(emotion_features, "self_harm"),
     despair_level     |-> Get(emotion_features, "despair"),
     agitation_level   |-> Get(emotion_features, "agitation"),
     emptiness_level   |-> Get(emotion_features, "emptiness"),
     shame_level       |-> Get(emotion_features, "shame"),
     emotion_slope     |-> emotion_slope,
     negative_total    |-> Get(emotion_features, "sadness")
                           + Get(emotion_features, "anxiety")
                           + Get(emotion_features, "fear")
                           + Get(emotion_features, "anger")
                           + Get(emotion_features, "guilt")]

should_trigger_intervention(risk_level, urgency_score) ==
    \/ risk_level \in {"HIGH", "CRITICAL"}
    \/ risk_level = "MEDIUM" /\ urgency_score > 6000

record_emotion_history_drop_at_cap(history, emotion_features) ==
    LET appended == Append(history, emotion_features)
    IN  IF Len(appended) >= max_history THEN Tail(appended) ELSE appended

\* append, then drop the oldest entry once the length exceeds max_history
record_emotion_history(history, emotion_features) ==
    LET appended == Append(history, emotion_features)
    IN  IF Len(appended) > max_history THEN Tail(appended) ELSE appended

\* the InterventionTrigger evaluate_risk returns (the reason text is a
\* rendering of these fields and is left out)
InterventionTrigger(emotion_features, emotion_slope, conversation_context) ==
    LET risk_level    == calculate_risk_level(emotion_features, emotion_slope,
                                              conversation_context)
        urgency_score == calculate_urgency_score(emotion_features, emotion_slope)
    IN  [triggered       |-> should_trigger_intervention(risk_level, urgency_score),
         risk_level      |-> risk_level,
         emotion_slope   |-> emotion_slope,
         urgency_score   |-> urgency_score,
         trigger_signals |-> extract_trigger_signals(emotion_features, emotion_slope)]

\* evaluate_risk(emotion_features, emotion_slope, conversation_context)
EvaluateRisk(x) ==
    /\ riskCalls' = Append(riskCalls,
            [args   |-> x,
             result |-> InterventionTrigger(x.emotions, x.slope, x.context)])
    /\ emotion_history' = record_emotion_history(emotion_history, x.emotions)
    /\ UNCHANGED <<routerVars, dbtVars, concVars>>

----------------------------------------------------------------------------
(* IntelligentRouter  (src/app/services/routing/intelligent_router.py) *)

\* str.lower() on the characters the texts of the model are made of
LowerChar(c) ==
    CASE c = "S" -> "s"
      [] c = "O" -> "o"
      [] OTHER   -> c

lower(text) == [i \in 1..Len(text) |-> LowerChar(text[i])]

\* Python's `keyword in text` on strings
IsSubstring(keyword, text) ==
    \E i \in 1..(Len(text) - Len(keyword) + 1) :
        SubSeq(text, i, i + Len(keyword) - 1) = keyword

\* ROUTING_L3_CRISIS_KEYWORDS default: 自杀,自残,自毁,不想活,结束生命,死掉,杀死自己
DefaultCrisisKeywords ==
    << <<"zi", "sha">>, <<"zi", "can">>, <<"zi", "hui">>, <<"bu", "xiang", "huo">>,
       <<"jie", "shu", "sheng", "ming">>, <<"si", "diao">>,
       <<"sha", "si", "zi", "ji">> >>

\* DBT_EMOTIONS default, the list behind IntelligentRouter.dbt_emotions
dbt_emotions == EmotionNames

dbt_core_emotions == <<"emptiness", "shame", "agitation", "self_harm">>

RECURSIVE SumOver(_, _)
\* sum(d.get(e, 0.0) for e in names)
SumOver(names, d) ==
    IF names = {} THEN 0
    ELSE LET e == CHOOSE n \in names : TRUE
         IN  Get(d, e) + SumOver(names \ {e}, d)

\* max(d.values()) if d else 0.0
MaxValue(d) ==
    IF DOMAIN d = {} THEN 0
    ELSE CHOOSE v \in {d[k] : k \in DOMAIN d} : \A k \in DOMAIN d : d[k] <= v

\* features.get(key, default); None and {} are both the empty mapping
Feature(features, key, default) ==
    IF key \in DOMAIN features THEN features[key] ELSE default

\* one indicator when the condition holds
Indicator(cond, tag) == IF cond THEN <<tag>> ELSE <<>>

\* one "keyword" indicator per configured keyword found in the lowered text
RECURSIVE KeywordIndicators(_, _)
KeywordIndicators(keywords, text_lower) ==
    IF keywords = <<>> THEN <<>>
    ELSE Indicator(IsSubstring(Head(keywords), text_lower), "crisis_keyword")
         \o KeywordIndicators(Tail(keywords), text_lower)

crisis_indicators(text, emotion_features, audio_features, video_features) ==
    LET emptiness == Get(emotion_features, "emptiness")
        despair   == Get(emotion_features, "despair")
        self_harm == Get(emotion_features, "self_harm")
        tempo     == Feature(audio_features, "tempo", 120)
    IN  KeywordIndicators(crisis_keywords, lower(text))
        \o Indicator(self_harm > 50, "self_harm")
        \o Indicator(despair > 40, "despair")
        \o Indicator(emptiness > 30 /\ despair > 30, "emptiness_and_despair")
        \o Indicator(self_harm > 30 /\ despair > 30, "self_harm_and_despair")
        \o Indicator(DOMAIN audio_features # {}
                     /\ Feature(audio_features, "jitter", 0) > 50, "audio_jitter")
        \o Indicator(DOMAIN audio_features # {} /\ (tempo > 180 \/ tempo < 60),
                     "audio_tempo")
        \o Indicator(DOMAIN video_features # {}
                     /\ Feature(video_features, "edge_density", 0) > 30,
                     "video_edge_density")

\* the RouteResult both checks return when they find nothing
NoRoute ==
    [level |-> "L1_QUICK", confidence |-> 0, reason |-> <<>>,
     suggested_action |-> "", requires_dbt |-> FALSE, crisis_flag |-> FALSE]

check_crisis_signals(text, emotion_features, audio_features, video_features) ==
    LET indicators == crisis_indicators(text, emotion_features, audio_features,
                                        video_features)
    IN  IF indicators # <<>>
        THEN [level |-> "L3_CRISIS", confidence |-> 10000, reason |-> indicators,
              suggested_action |-> "crisis_intervention",
              requires_dbt |-> TRUE, crisis_flag |-> TRUE]
        ELSE NoRoute

RECURSIVE CoreIndicators(_, _)
CoreIndicators(names, emotion_features) ==
    IF names = <<>> THEN <<>>
    ELSE Indicator(Get(emotion_features, Head(names)) > 30, Head(names))
         \o CoreIndicators(Tail(names), emotion_features)

RECURSIVE CoreScore(_, _)
\* score * 0.3 for every core emotion above 0.3, in 1/10000
CoreScore(names, emotion_features) ==
    IF names = <<>> THEN 0
    ELSE (IF Get(emotion_features, Head(names)) > 30
          THEN Get(emotion_features, Head(names)) * 30 ELSE 0)
         + CoreScore(Tail(names), emotion_features)

intervention_indicators(emotion_features, audio_features, video_features) ==
    LET negative_score == SumOver(dbt_emotions, emotion_features)
        active_negative_count ==
            Cardinality({e \in dbt_emotions : Get(emotion_features, e) > 20})
        arousal == MaxValue(emotion_features)
    IN  CoreIndicators(dbt_core_emotions, emotion_features)
        \o Indicator(negative_score > 50, "negative_score")
        \o Indicator(active_negative_count >= 2, "multi_emotion")
        \o Indicator(arousal > l2_threshold, "arousal")
        \o Indicator(DOMAIN audio_features # {}
                     /\ Feature(audio_features, "tempo", 0) > 140
                     /\ Feature(audio_features, "energy", 0) > 50, "audio_agitated")
        \o Indicator(DOMAIN audio_features # {}
                     /\ Feature(audio_features, "jitter", 0) > 30, "audio_tense")
        \o Indicator(DOMAIN video_features # {}
                     /\ Feature(video_features, "edge_density", 0) > 20, "video_tense")

\* the accumulated intervention_score, in 1/10000
intervention_score(emotion_features, audio_features, video_features) ==
    LET negative_score == SumOver(dbt_emotions, emotion_features)
        active_negative_count ==
            Cardinality({e \in dbt_emotions : Get(emotion_features, e) > 20})
        arousal == MaxValue(emotion_features)
    IN  CoreScore(dbt_core_emotions, emotion_features)
        + (IF negative_score > 50 THEN negative_score * 30 ELSE 0)
        + (IF active_negative_count >= 2 THEN 3000 ELSE 0)
        + (IF arousal > l2_threshold THEN 3000 ELSE 0)
        + (IF DOMAIN audio_features # {}
              /\ Feature(audio_features, "tempo", 0) > 140
              /\ Feature(audio_features, "energy", 0) > 50 THEN 2000 ELSE 0)
        + (IF DOMAIN audio_features # {}
              /\ Feature(audio_features, "jitter", 0) > 30 THEN 1500 ELSE 0)
        + (IF DOMAIN video_features # {}
              /\ Feature(video_features, "edge_density", 0) > 20 THEN 1000 ELSE 0)

\* check_intervention_needed asking for the score and the indicator count both
check_intervention_needed_score_and_count(emotion_features, audio_features, video_features) ==
    LET indicators == intervention_indicators(emotion_features, audio_features,
                                              video_features)
        score == intervention_score(emotion_features, audio_features, video_features)
    IN  IF score >= l2_threshold * 100 /\ Len(indicators) >= 2
        THEN [level |-> "L2_INTERVENTION", confidence |-> Min(score, 10000),
              reason |-> indicators, suggested_action |-> "activate_dbt_matching",
              requires_dbt |-> TRUE, crisis_flag |-> FALSE]
        ELSE NoRoute

check_intervention_needed(emotion_features, audio_features, video_features) ==
    LET indicators == intervention_indicators(emotion_features, audio_features,
                                              video_features)
        score == intervention_score(emotion_features, audio_features, video_features)
    IN  IF score >= l2_threshold * 100 \/ Len(indicators) >= 2
        THEN [level |-> "L2_INTERVENTION", confidence |-> Min(score, 10000),
              reason |-> indicators, suggested_action |-> "activate_dbt_matching",
              requires_dbt |-> TRUE, crisis_flag |-> FALSE]
        ELSE NoRoute

route_by_last_risk(text, emotion_features, audio_features, video_features) ==
    IF riskCalls # <<>> /\ Last(riskCalls).result.risk_level = "CRITICAL"
    THEN check_crisis_signals(<<"zi", "sha">>, emotion_features, audio_features,
                              video_features)
    ELSE check_crisis_signals(text, emotion_features, audio_features, video_features)

route(text, emotion_features, audio_features, video_features) ==
    LET crisis_result == check_crisis_signals(text, emotion_features,
                                              audio_features, video_features)
        intervention_result == check_intervention_needed(emotion_features,
                                              audio_features, video_features)
    IN  IF crisis_result.crisis_flag THEN crisis_result
        ELSE IF intervention_result.level = "L2_INTERVENTION" THEN intervention_result
        ELSE [level |-> "L1_QUICK", confidence |-> 8000, reason |-> <<"small_talk">>,
              suggested_action |-> "reply_directly",
              requires_dbt |-> FALSE, crisis_flag |-> FALSE]

\* route(text, emotion_features, audio_features, video_features)
Route(x) ==
    /\ routeCall' = Append(routeCall,
            [args   |-> x,
             result |-> route(x.text, x.emotions, x.audio, x.video)])
    /\ UNCHANGED <<crisis_keywords, l2_threshold, riskVars, dbtVars, concVars>>

----------------------------------------------------------------------------
(* SkillRepository  (src/app/modules/dbt/repositories/skill_repository.py)
   The two tables are the variables skills and rules: functions from the
   primary key id to the row.  Names are written in ASCII: the module
   "mindfulness" is 正念 and "distress_tolerance" is 痛苦耐受; the skills
   "radical_acceptance" and "observe" are 彻底接纳 and 观察; a module_id of 0
   is None. *)

\* dbt_modules rows: id -> name
modules ==
    (1 :> "mindfulness") @@ (2 :> "distress_tolerance")
    @@ (3 :> "emotion_regulation") @@ (4 :> "interpersonal_effectiveness")

RECURSIVE Ascending(_)
\* the ids of a set in ascending order: the order the table returns rows in
Ascending(ids) ==
    IF ids = {} THEN <<>>
    ELSE LET least == CHOOSE i \in ids : \A j \in ids : i <= j
         IN  <<least>> \o Ascending(ids \ {least})

\* the rows of a table with the given ids, in table order
Rows(table, ids) ==
    LET order == Ascending(ids \cap DOMAIN table)
    IN  [i \in 1..Len(order) |-> table[order[i]]]

\* get_all_skills(active_only=True)
get_all_skills ==
    Rows(skills, {i \in DOMAIN skills : skills[i].is_active})

InSeq(x, s) == \E i \in 1..Len(s) : s[i] = x

get_skills_by_ids_active_only(skill_ids) ==
    Rows(skills, {i \in DOMAIN skills :
                     skills[i].is_active /\ InSeq(i, skill_ids)})

\* get_skills_by_ids(skill_ids): WHERE id IN (...), no filter on is_active,
\* rows in table order
get_skills_by_ids(skill_ids) ==
    Rows(skills, {skill_ids[i] : i \in 1..Len(skill_ids)})

\* the one row whose name or name_en is the given name, as <<row>>, or <<>>
\* (scalar_one_or_none: more than one such row raises)
get_skill_by_name(name) ==
    Rows(skills, {i \in DOMAIN skills :
                     skills[i].name = name \/ skills[i].name_en = name})

\* get_skills_by_module(module_id, active_only=True)
get_skills_by_module(module_id) ==
    Rows(skills, {i \in DOMAIN skills :
                     skills[i].module_id = module_id /\ skills[i].is_active})

\* get_skills_by_emotion(emotion)
get_skills_by_emotion(emotion) ==
    SelectSeq(get_all_skills, LAMBDA skill : InSeq(emotion, skill.trigger_emotions))

\* get_module_by_id(module_id) as the module's name, "" when there is none
get_module_name(module_id) ==
    IF module_id \in DOMAIN modules THEN modules[module_id] ELSE ""

RECURSIVE ByPriority(_)
\* ORDER BY priority DESC (rows of equal priority in table order)
ByPriority(ids) ==
    IF ids = {} THEN <<>>
    ELSE LET first == CHOOSE i \in ids :
                 \A j \in ids : \/ rules[i].priority > rules[j].priority
                                \/ rules[i].priority = rules[j].priority /\ i <= j
         IN  <<rules[first]>> \o ByPriority(ids \ {first})

\* get_all_rules(active_only=True)
get_all_rules == ByPriority({i \in DOMAIN rules : rules[i].is_active})

----------------------------------------------------------------------------
(* SkillMatcher  (src/app/modules/dbt/services/skill_matcher.py)
   Rule and skill scores are in 1/60000, so that dividing a rule's total by
   its number of conditions (at most 6 in the rules of the model) is exact:
   a score of n/100 is 600 * n. *)

\* a request's emotions dict is a sequence of <<name, value>> in insertion order
DictHas(d, k) == \E i \in 1..Len(d) : d[i][1] = k

\* d.get(k, 0.0)
DictGet(d, k) ==
    IF DictHas(d, k) THEN d[CHOOSE i \in 1..Len(d) : d[i][1] = k][2] ELSE 0

\* _build_context
build_context(request) ==
    [emotions        |-> request.emotions,
     arousal         |-> request.arousal,
     trigger_signals |-> request.trigger_signals,
     context         |-> request.context,
     risk_level      |-> request.risk_level,
     user_stability  |-> IF request.user_profile # <<>>
                         THEN request.user_profile[1].stability_score ELSE 50,
     last_skill      |-> request.last_skill_used]

\* evaluate_condition letting an operator it does not know pass
evaluate_condition_unknown_passes(actual, operator, expected) ==
    CASE operator = ">"      -> actual > expected
      [] operator = ">="     -> actual >= expected
      [] operator = "<"      -> actual < expected
      [] operator = "<="     -> actual <= expected
      [] operator = "=="     -> actual = expected
      [] operator = "!="     -> actual # expected
      [] OTHER               -> TRUE

\* _evaluate_condition on numbers: "in" and "contains" need a list or a
\* string and give False, "not_in" gives True, an unknown operator False
evaluate_condition(actual, operator, expected) ==
    CASE operator = ">"      -> actual > expected
      [] operator = ">="     -> actual >= expected
      [] operator = "<"      -> actual < expected
      [] operator = "<="     -> actual <= expected
      [] operator = "=="     -> actual = expected
      [] operator = "!="     -> actual # expected
      [] operator = "not_in" -> TRUE
      [] OTHER               -> FALSE

\* match_details[key] = ...: a new key goes last, an old one keeps its place
AddDetail(details, key) == IF InSeq(key, details) THEN details ELSE Append(details, key)

RECURSIVE EvalEmotionConditions(_, _, _)
\* the emotion_conditions loop; acc is [matched, total_score, condition_count,
\* match_details]
EvalEmotionConditions(conds, context, acc) ==
    IF conds = <<>> THEN acc
    ELSE LET c == Head(conds)
             actual_value == DictGet(context.emotions, c.emotion)
             ok == evaluate_condition(actual_value, c.operator, c.value)
         IN  EvalEmotionConditions(Tail(conds), context,
                [matched         |-> acc.matched /\ ok,
                 total_score     |-> acc.total_score
                                     + (IF ok THEN actual_value * 600 ELSE 0),
                 condition_count |-> acc.condition_count + 1,
                 match_details   |-> IF ok
                     THEN AddDetail(acc.match_details, <<"emotion", c.emotion, actual_value>>)
                     ELSE acc.match_details])

RECURSIVE EvalSignalConditions(_, _, _)
\* the trigger_signals loop: a satisfied signal adds half its value
EvalSignalConditions(conds, context, acc) ==
    IF conds = <<>> THEN acc
    ELSE LET c == Head(conds)
             actual_value == Get(context.trigger_signals, c.signal)
             ok == evaluate_condition(actual_value, c.operator, c.value)
         IN  EvalSignalConditions(Tail(conds), context,
                [matched         |-> acc.matched /\ ok,
                 total_score     |-> acc.total_score
                                     + (IF ok THEN actual_value * 300 ELSE 0),
                 condition_count |-> acc.condition_count + 1,
                 match_details   |-> IF ok
                     THEN AddDetail(acc.match_details, <<"signal", c.signal, actual_value>>)
                     ELSE acc.match_details])

EvalArousal(conditions, context, acc) ==
    LET cond == conditions.arousal
        ok == evaluate_condition(context.arousal, cond.operator, cond.value)
    IN  IF ~("arousal" \in DOMAIN conditions /\ acc.matched) THEN acc ELSE
        [matched         |-> ok,
         total_score     |-> acc.total_score + (IF ok THEN context.arousal * 180 ELSE 0),
         condition_count |-> acc.condition_count + 1,
         match_details   |-> IF ok THEN AddDetail(acc.match_details, <<"arousal", "", context.arousal>>)
                                   ELSE acc.match_details]

EvalContextContains(conditions, context, acc) ==
    LET keywords == conditions.context_contains
        ok == \E i \in 1..Len(keywords) : IsSubstring(keywords[i], context.context)
    IN  IF ~("context_contains" \in DOMAIN conditions /\ acc.matched) THEN acc ELSE
        [matched         |-> ok,
         total_score     |-> acc.total_score + (IF ok THEN 12000 ELSE 0),
         condition_count |-> acc.condition_count + 1,
         match_details   |-> IF ok THEN AddDetail(acc.match_details, <<"context", "", 0>>)
                                   ELSE acc.match_details]

\* risk_scores: LOW 0.1, MEDIUM 0.3, HIGH 0.6, CRITICAL 0.9
risk_scores(level) ==
    CASE level = "LOW" -> 6000
      [] level = "MEDIUM" -> 18000
      [] level = "HIGH" -> 36000
      [] level = "CRITICAL" -> 54000
      [] OTHER -> 6000

EvalRiskLevel(conditions, context, acc) ==
    LET ok == InSeq(context.risk_level, conditions.risk_level)
    IN  IF ~("risk_level" \in DOMAIN conditions /\ acc.matched) THEN acc ELSE
        [matched         |-> ok,
         total_score     |-> acc.total_score
                             + (IF ok THEN risk_scores(context.risk_level) ELSE 0),
         condition_count |-> acc.condition_count + 1,
         match_details   |-> IF ok THEN AddDetail(acc.match_details, <<"risk_level", context.risk_level, 0>>)
                                   ELSE acc.match_details]

\* the emotion_conditions group, when the rule has one
EvalEmotions(conditions, context, acc) ==
    IF "emotion_conditions" \in DOMAIN conditions
    THEN EvalEmotionConditions(conditions.emotion_conditions, context, acc)
    ELSE acc

\* the trigger_signals group, when the rule has one and is still matched
EvalSignals(conditions, context, acc) ==
    IF "trigger_signals" \in DOMAIN conditions /\ acc.matched
    THEN EvalSignalConditions(conditions.trigger_signals, context, acc)
    ELSE acc

\* avg_score + rule.priority / 1000
RuleMatchResult(rule, acc) ==
    [rule_name     |-> rule.rule_name,
     matched       |-> acc.matched,
     score         |-> acc.total_score \div Max(acc.condition_count, 1)
                       + rule.priority * 60,
     skill_ids     |-> rule.skill_ids,
     module_id     |-> rule.module_id,
     match_details |-> acc.match_details]

\* _evaluate_rule: the groups in their fixed order; a group after the first
\* is evaluated only while the rule is still matched
evaluate_rule(rule, context) ==
    RuleMatchResult(rule,
        EvalRiskLevel(rule.conditions, context,
        EvalContextContains(rule.conditions, context,
        EvalArousal(rule.conditions, context,
        EvalSignals(rule.conditions, context,
        EvalEmotions(rule.conditions, context,
            [matched |-> TRUE, total_score |-> 0, condition_count |-> 0,
             match_details |-> <<>>]))))))

TopEmotion_last_of_largest(emotions) ==
    emotions[CHOOSE i \in 1..Len(emotions) :
                /\ \A j \in 1..Len(emotions) : emotions[j][2] <= emotions[i][2]
                /\ \A j \in (i + 1)..Len(emotions) : emotions[j][2] < emotions[i][2]]

\* max(context.emotions.items(), key=value): the first of the largest
TopEmotion(emotions) ==
    emotions[CHOOSE i \in 1..Len(emotions) :
                /\ \A j \in 1..Len(emotions) : emotions[j][2] <= emotions[i][2]
                /\ \A j \in 1..(i - 1) : emotions[j][2] < emotions[i][2]]

\* the rule-like result of the fallback for the strongest emotion
FallbackResult(top, found) ==
    IF top[2] < 30 \/ found = <<>> THEN <<>>
    ELSE << [rule_name     |-> "emotion_fallback_" \o top[1],
             matched       |-> TRUE,
             score         |-> top[2] * 600,
             skill_ids     |-> [i \in 1..Min(Len(found), 2) |-> found[i].id],
             module_id     |-> found[1].module_id,
             match_details |-> << <<"primary_emotion", top[1], top[2]>>,
                                  <<"value", "", top[2]>> >>] >>

FallbackFor(top) == FallbackResult(top, get_skills_by_emotion(top[1]))

\* _fallback_emotion_match
fallback_emotion_match(context) ==
    IF context.emotions = <<>> THEN <<>>
    ELSE FallbackFor(TopEmotion(context.emotions))

Take_ignores_limit(s, n) == s

\* s[:n]; a negative n counts from the end
Take(s, n) ==
    IF n >= 0 THEN SubSeq(s, 1, Min(n, Len(s)))
    ELSE SubSeq(s, 1, Max(Len(s) + n, 0))

HasSkill(result, skill) == InSeq(skill.id, result.skill_ids)

\* the first rule result that lists the skill, as <<result>>, or <<>>
FirstResultWith(skill, rule_results) ==
    LET hits == SelectSeq(rule_results, LAMBDA r : HasSkill(r, skill))
    IN  IF hits = <<>> THEN <<>> ELSE <<Head(hits)>>

RECURSIVE EmotionBonus(_, _)
\* += context.emotions[emotion] * 0.1 for each trigger emotion of the request
EmotionBonus(trigger_emotions, emotions) ==
    IF trigger_emotions = <<>> THEN 0
    ELSE (IF DictHas(emotions, Head(trigger_emotions))
          THEN DictGet(emotions, Head(trigger_emotions)) * 60 ELSE 0)
         + EmotionBonus(Tail(trigger_emotions), emotions)

\* the difficulty adjustment and the clamp to [0, 1]
AdjustForDifficulty(score, d, user_stability) ==
    Min(60000, Max(0,
        IF d # 0 /\ user_stability < 40 /\ d > 1 THEN score - 6000 * (d - 1)
        ELSE IF d # 0 /\ user_stability > 70 /\ d > 1 THEN score + 3000 * d
        ELSE score))

\* base_score = 0.5, or the score of the first rule result with the skill
\* when that is higher
BaseScore(first) == IF first = <<>> THEN 30000 ELSE Max(30000, first[1].score)

\* _calculate_skill_score
calculate_skill_score(skill, context, rule_results) ==
    AdjustForDifficulty(
        BaseScore(FirstResultWith(skill, rule_results))
            + EmotionBonus(skill.trigger_emotions, context.emotions),
        skill.difficulty_level, context.user_stability)

\* the reasons read off the matched emotions or signals of a rule result
DetailReasons(details, kind) ==
    SelectSeq(details, LAMBDA detail : detail[1] = kind)

\* reasons[:3] joined by "；", or the fixed sentence
JoinReasons(reasons) ==
    IF reasons # <<>> THEN Take(reasons, 3) ELSE << <<"default", "", 0>> >>

RuleReasons(first) ==
    IF first = <<>> THEN <<>>
    ELSE DetailReasons(first[1].match_details, "emotion")
         \o DetailReasons(first[1].match_details, "signal")

\* _generate_match_reason
generate_match_reason(skill, context, rule_results) ==
    JoinReasons(
        RuleReasons(FirstResultWith(skill, rule_results))
        \o (IF context.arousal > 60 THEN << <<"arousal_high", "", 0>> >> ELSE <<>>)
        \o (IF context.context # <<>>
            THEN << <<"context", context.context, 0>> >> ELSE <<>>))

\* _skill_to_recommended
skill_to_recommended(skill, match_score, match_reason) ==
    [skill_id      |-> skill.id,
     skill_name    |-> skill.name,
     skill_name_en |-> skill.name_en,
     module_name   |-> get_module_name(skill.module_id),
     match_score   |-> match_score,
     match_reason  |-> match_reason]

\* 深呼吸, 正念观察, 自我安抚
universal_skills == <<"deep_breathing", "mindful_observation", "self_soothing">>

RECURSIVE AddUniversal(_, _)
AddUniversal(fallbacks, names) ==
    IF names = <<>> \/ Len(fallbacks) >= 2 THEN fallbacks
    ELSE AddUniversal(IF InSeq(Head(names), fallbacks) THEN fallbacks
                      ELSE Append(fallbacks, Head(names)),
                      Tail(names))

\* the module's active skills that are not recommended
OtherSkills(recommended_ids, module_id) ==
    IF module_id = 0 THEN <<>>
    ELSE SelectSeq(get_skills_by_module(module_id),
                   LAMBDA skill : skill.id \notin recommended_ids)

Names(rows) == [i \in 1..Len(rows) |-> rows[i].name]

\* _get_fallback_skills
get_fallback_skills(recommended, module_id, context) ==
    AddUniversal(
        Names(Take(OtherSkills({recommended[i].skill_id : i \in 1..Len(recommended)},
                               module_id), 2)),
        universal_skills)

RECURSIVE InsertByScore(_, _)
\* r goes after every result whose score is not below its own
InsertByScore(r, sorted) ==
    IF sorted = <<>> THEN <<r>>
    ELSE IF Head(sorted).score >= r.score
         THEN <<Head(sorted)>> \o InsertByScore(r, Tail(sorted))
         ELSE <<r>> \o sorted

RECURSIVE SortByScore(_)
\* rule_results.sort(key=score, reverse=True): stable
SortByScore(results) ==
    IF results = <<>> THEN <<>>
    ELSE InsertByScore(Last(results),
                       SortByScore(SubSeq(results, 1, Len(results) - 1)))

RECURSIVE Concat(_)
Concat(seqs) == IF seqs = <<>> THEN <<>> ELSE Head(seqs) \o Concat(Tail(seqs))

RECURSIVE Unique(_)
\* list(dict.fromkeys(ids)): the first occurrence of each id, in order
Unique(ids) ==
    IF ids = <<>> THEN <<>>
    ELSE LET front == Unique(SubSeq(ids, 1, Len(ids) - 1))
         IN  IF InSeq(Last(ids), front) THEN front ELSE Append(front, Last(ids))

\* the module_id of the first result that has one, 0 for None
FirstModuleId(rule_results) ==
    LET having == SelectSeq(rule_results, LAMBDA r : r.module_id # 0)
    IN  IF having = <<>> THEN 0 ELSE Head(having).module_id

\* the matched rules, or the emotion fallback when there is none
OrFallback(by_rules, context) ==
    IF by_rules = <<>> THEN fallback_emotion_match(context) ELSE by_rules

Evaluated(rows, context) == [i \in 1..Len(rows) |-> evaluate_rule(rows[i], context)]

\* rule_results after the sort
RuleResults(context) ==
    SortByScore(OrFallback(SelectSeq(Evaluated(get_all_rules, context),
                                     LAMBDA r : r.matched),
                           context))

SkillIds(rule_results) ==
    Concat([i \in 1..Len(rule_results) |-> rule_results[i].skill_ids])

\* recommended_skills
Recommended(found, context, rule_results) ==
    [i \in 1..Len(found) |->
        skill_to_recommended(found[i],
            calculate_skill_score(found[i], context, rule_results),
            generate_match_reason(found[i], context, rule_results))]

ModuleName(recommended_skills, module_id) ==
    IF recommended_skills # <<>> THEN recommended_skills[1].module_name
    ELSE IF module_id # 0 /\ module_id \in DOMAIN modules THEN modules[module_id]
    ELSE "distress_tolerance"

MatchResult(recommended_skills, module_id, rule_results, context) ==
    [module        |-> ModuleName(recommended_skills, module_id),
     skills        |-> recommended_skills,
     fallbacks     |-> get_fallback_skills(recommended_skills, module_id, context),
     matched_rules |-> [i \in 1..Len(rule_results) |-> rule_results[i].rule_name]]

MatchWith(context, rule_results, max_skills) ==
    MatchResult(
        Recommended(get_skills_by_ids(Take(Unique(SkillIds(rule_results)), max_skills)),
                    context, rule_results),
        FirstModuleId(rule_results), rule_results, context)

\* SkillMatcher.match
match(request, max_skills) ==
    MatchWith(build_context(request), RuleResults(build_context(request)), max_skills)

\* match(request, max_skills): the call and what it returned
Match(request, max_skills) ==
    /\ matchCall' = Append(matchCall,
            [request    |-> request,
             max_skills |-> max_skills,
             result     |-> match(request, max_skills)])
    /\ UNCHANGED <<repoVars, settings, recommendCall, riskVars, routerVars, concVars>>

----------------------------------------------------------------------------
(* LLMService  (src/app/modules/dbt/services/llm_service.py)
   What the remote model answers is an input of the call: an outcome is
   [kind, content], kind "text" for a completion that carries content, and
   "malformed" (no choices, or a content of None), "exception" or "timeout",
   which all raise inside the try.  A content is a sequence of tokens: a
   skill name, a separator (",", and "wide_comma", "dun_comma", "newline" for
   "，", "、", "\n"), a blank " ", or "long_text" for a run of 20 characters.
   A reason is a sequence of tokens as well, <<>> being the empty string. *)

RECURSIVE StripLeft(_)
StripLeft(s) == IF s # <<>> /\ Head(s) \in {" ", "newline"} THEN StripLeft(Tail(s)) ELSE s

RECURSIVE StripRight(_)
StripRight(s) ==
    IF s # <<>> /\ Last(s) \in {" ", "newline"} THEN StripRight(SubSeq(s, 1, Len(s) - 1)) ELSE s

\* str.strip()
strip(s) == StripRight(StripLeft(s))

\* 痛苦耐受, 情绪调节, 人际效能, 正念
module_reasons ==
    {"distress_tolerance", "emotion_regulation", "interpersonal_effectiveness",
     "mindfulness"}

\* _get_fallback_reason: one of the fixed sentences, with the skill's name
get_fallback_reason(request, matched_skills) ==
    IF matched_skills = <<>> THEN <<"lets_try_relaxing">>
    ELSE IF matched_skills[1].module_name \in module_reasons
    THEN <<"reason_of_module", matched_skills[1].module_name,
           matched_skills[1].skill_name>>
    ELSE <<"suggest_trying", matched_skills[1].skill_name>>

\* generate_recommendation_reason
generate_recommendation_reason(request, matched_skills, outcome) ==
    IF matched_skills = <<>> THEN <<"suggest_relaxing">>
    ELSE IF outcome.kind = "text" THEN strip(outcome.content)
    ELSE get_fallback_reason(request, matched_skills)

separators == <<",", "wide_comma", "dun_comma", "newline">>

\* the first separator the content has, "" when it has none
FirstSeparator(content) ==
    IF \A i \in 1..Len(separators) : ~InSeq(separators[i], content) THEN ""
    ELSE separators[CHOOSE i \in 1..Len(separators) :
                        /\ InSeq(separators[i], content)
                        /\ \A j \in 1..(i - 1) : ~InSeq(separators[j], content)]

RECURSIVE split(_, _)
\* content.split(sep)
split(content, sep) ==
    IF ~InSeq(sep, content) THEN <<content>>
    ELSE LET k == CHOOSE i \in 1..Len(content) :
                      content[i] = sep /\ \A j \in 1..(i - 1) : content[j] # sep
         IN  <<SubSeq(content, 1, k - 1)>>
             \o split(SubSeq(content, k + 1, Len(content)), sep)

\* the pieces of the content: the content itself without a separator
Pieces(content, sep) ==
    IF sep = "" THEN <<content>>
    ELSE [i \in 1..Len(split(content, sep)) |-> strip(split(content, sep)[i])]

RECURSIVE CharCount(_)
\* len(s): "long_text" is 20 characters; a name is short, it counts as one
CharCount(piece) ==
    IF piece = <<>> THEN 0
    ELSE (IF Head(piece) = "long_text" THEN 20 ELSE 1) + CharCount(Tail(piece))

\* _parse_skill_names
parse_skill_names(content) ==
    Take(SelectSeq(Pieces(strip(content), FirstSeparator(strip(content))),
                   LAMBDA s : s # <<>> /\ CharCount(s) < 20),
         2)

\* LLMService.handle_edge_case: the names, each a sequence of tokens; 深呼吸
\* and 正念观察 when the call fails
llm_handle_edge_case(request, outcome) ==
    IF outcome.kind = "text" THEN parse_skill_names(strip(outcome.content))
    ELSE << <<"deep_breathing">>, <<"mindful_observation">> >>

----------------------------------------------------------------------------
(* RecommendationEngine
   (src/app/modules/dbt/services/recommendation_engine.py) *)

\* the row a parsed name finds: a name of several tokens is no row's name
SkillNamed(piece) == IF Len(piece) = 1 THEN get_skill_by_name(piece[1]) ELSE <<>>

\* the RecommendedSkill of _handle_edge_case: fixed score 0.5, "LLM推荐"
EdgeSkill(skill) ==
    [skill_id      |-> skill.id,
     skill_name    |-> skill.name,
     skill_name_en |-> skill.name_en,
     module_name   |-> get_module_name(skill.module_id),
     match_score   |-> 30000,
     match_reason  |-> << <<"llm_recommended", "", 0>> >>]

RECURSIVE EdgeSkills(_)
\* one RecommendedSkill for each name that is in the repository
EdgeSkills(names) ==
    IF names = <<>> THEN <<>>
    ELSE (IF SkillNamed(Head(names)) # <<>>
          THEN <<EdgeSkill(SkillNamed(Head(names))[1])>> ELSE <<>>)
         \o EdgeSkills(Tail(names))

\* module_name: that of the last skill found that has a module
EdgeModule(found) ==
    IF \A i \in 1..Len(found) : found[i].module_name = "" THEN "distress_tolerance"
    ELSE found[CHOOSE i \in 1..Len(found) :
                  /\ found[i].module_name # ""
                  /\ \A j \in (i + 1)..Len(found) : found[j].module_name = ""].module_name

\* _handle_edge_case, given the names LLMService.handle_edge_case returned
handle_edge_case(skill_names) ==
    IF skill_names = <<>>
    THEN [module |-> "distress_tolerance", skills |-> <<>>, fallbacks |-> <<>>,
          matched_rules |-> <<>>]
    ELSE [module |-> EdgeModule(EdgeSkills(skill_names)),
          skills |-> EdgeSkills(skill_names), fallbacks |-> <<>>,
          matched_rules |-> <<"llm_edge_case">>]

\* default_skill_name: TIPP at HIGH or CRITICAL risk or arousal > 0.6, else 观察
DefaultSkillName(request) ==
    IF request.risk_level \in {"HIGH", "CRITICAL"} \/ request.arousal > 60
    THEN "TIPP" ELSE "observe"

\* module_name: 痛苦耐受 with TIPP, 正念 with 观察
DefaultModuleName(request) ==
    IF request.risk_level \in {"HIGH", "CRITICAL"} \/ request.arousal > 60
    THEN "distress_tolerance" ELSE "mindfulness"

DefaultResult(found, module_name) ==
    IF found # <<>>
    THEN [module |-> module_name,
          skills |-> << [skill_id      |-> found[1].id,
                         skill_name    |-> found[1].name,
                         skill_name_en |-> found[1].name_en,
                         module_name   |->
                             IF found[1].module_id \in DOMAIN modules
                             THEN modules[found[1].module_id] ELSE module_name,
                         match_score   |-> 18000,
                         match_reason  |-> << <<"default_recommendation", "", 0>> >>] >>,
          fallbacks |-> <<"deep_breathing", "self_soothing">>,
          matched_rules |-> <<"default_fallback">>]
    ELSE [module |-> module_name, skills |-> <<>>,
          fallbacks |-> <<"deep_breathing", "mindful_observation">>,
          matched_rules |-> <<>>]

\* _get_default_recommendation
get_default_recommendation(request) ==
    DefaultResult(get_skill_by_name(DefaultSkillName(request)),
                  DefaultModuleName(request))

Approach(risk_level, urgency) ==
    IF risk_level \in {"HIGH", "CRITICAL"} THEN "EMPATHY_FIRST"
    ELSE IF urgency > 70 THEN "SKILL_ORIENTED"
    ELSE "EMPATHY_FIRST"

Intensity(risk_level, urgency) ==
    IF risk_level = "CRITICAL" THEN "CRISIS_PRIORITY"
    ELSE IF risk_level = "HIGH" \/ urgency > 60 THEN "STANDARD_TRAINING"
    ELSE "LIGHT_REMINDER"

Tone_calm_at_threshold(risk_level, arousal) ==
    IF arousal >= 70 THEN "CALM"
    ELSE IF risk_level \in {"HIGH", "CRITICAL"} THEN "WARM"
    ELSE "ENCOURAGING"

Tone(risk_level, arousal) ==
    IF arousal > 70 THEN "CALM"
    ELSE IF risk_level \in {"HIGH", "CRITICAL"} THEN "WARM"
    ELSE "ENCOURAGING"

\* the keys of skill_guidance: TIPP, STOP, ACCEPTS, 检查事实, 彻底接纳, 观察,
\* DEAR MAN
skill_guidance ==
    {"TIPP", "STOP", "ACCEPTS", "check_the_facts", "radical_acceptance",
     "observe", "DEAR MAN"}

\* the points the first skill adds
SkillPoints(recommended) ==
    IF recommended = <<>> THEN <<>>
    ELSE IF recommended[1].skill_name \in skill_guidance
    THEN << <<"guidance_1", recommended[1].skill_name>>,
            <<"guidance_2", recommended[1].skill_name>> >>
    ELSE << <<"step_by_step", recommended[1].skill_name>> >>

RiskPoints_append_at_critical(points, risk_level) ==
    IF risk_level = "CRITICAL" THEN Append(points, <<"confirm_safety", "">>)
    ELSE IF risk_level = "HIGH" THEN Append(points, <<"keep_watching", "">>)
    ELSE points

\* points.insert(0, ...) at CRITICAL, points.append(...) at HIGH
RiskPoints(points, risk_level) ==
    IF risk_level = "CRITICAL" THEN << <<"confirm_safety", "">> >> \o points
    ELSE IF risk_level = "HIGH" THEN Append(points, <<"keep_watching", "">>)
    ELSE points

\* _generate_key_points
generate_key_points(request, match_result, approach) ==
    Take(RiskPoints(
            (IF approach = "EMPATHY_FIRST"
             THEN << <<"validate_emotion", "">>, <<"express_support", "">> >>
             ELSE <<>>)
            \o SkillPoints(match_result.skills),
            request.risk_level),
         5)

\* _determine_guidance_strategy
determine_guidance_strategy(request, match_result) ==
    [approach   |-> Approach(request.risk_level, request.urgency_score),
     intensity  |-> Intensity(request.risk_level, request.urgency_score),
     tone       |-> Tone(request.risk_level, request.arousal),
     key_points |-> generate_key_points(request, match_result,
                        Approach(request.risk_level, request.urgency_score))]

\* _get_simple_reason
get_simple_reason(recommended) ==
    IF recommended = <<>> THEN <<"try_relaxation_techniques">>
    ELSE <<"recommend_skills", [i \in 1..Len(recommended) |-> recommended[i].skill_name]>>

\* step 2 of recommend: the LLM's names when the matcher found no skill
AfterEdgeCase(match_result, request, edge_outcome) ==
    IF match_result.skills = <<>> /\ settings.enable_llm_fallback
    THEN handle_edge_case(llm_handle_edge_case(request, edge_outcome))
    ELSE match_result

\* the default recommendation when there is still no skill
EnsureSkills(match_result, request) ==
    IF match_result.skills = <<>> THEN get_default_recommendation(request)
    ELSE match_result

\* steps 3 to 5 of recommend
Assemble(match_result, request, reason_outcome) ==
    [recommended_module    |-> match_result.module,
     recommended_skills    |-> match_result.skills,
     recommendation_reason |->
        IF settings.enable_llm_reason
        THEN generate_recommendation_reason(request, match_result.skills, reason_outcome)
        ELSE get_simple_reason(match_result.skills),
     guidance_strategy     |-> determine_guidance_strategy(request, match_result),
     fallback_skills       |-> match_result.fallbacks,
     metadata              |-> [matched_rules |-> match_result.matched_rules,
                                risk_level    |-> request.risk_level,
                                urgency_score |-> request.urgency_score]]

\* RecommendationEngine.recommend, given the outcomes of its two LLM calls
recommend(request, edge_outcome, reason_outcome) ==
    Assemble(
        EnsureSkills(
            AfterEdgeCase(match(request, settings.max_skills_per_recommendation),
                          request, edge_outcome),
            request),
        request, reason_outcome)

\* one call of recommend
Recommend(request, edge_outcome, reason_outcome) ==
    /\ recommendCall' = Append(recommendCall,
            [request |-> request, edge_outcome |-> edge_outcome,
             reason_outcome |-> reason_outcome,
             result |-> recommend(request, edge_outcome, reason_outcome)])
    /\ UNCHANGED <<repoVars, matchCall, settings, riskVars, routerVars, concVars>>

----------------------------------------------------------------------------
(* The seeded repository.  Rows are those of db/init_data.py
   with ids in seeding order; the skills 5, 6 and 7 that some rules name are
   not in any table of the model. *)

TIPP ==
    [id |-> 1, module_id |-> 2, name |-> "TIPP", name_en |-> "TIPP",
     trigger_emotions |-> <<"anxiety", "agitation", "fear", "anger", "panic">>,
     difficulty_level |-> 1, is_active |-> TRUE]

STOP ==
    [id |-> 2, module_id |-> 2, name |-> "STOP", name_en |-> "STOP",
     trigger_emotions |-> <<"impulse", "anger", "agitation">>,
     difficulty_level |-> 1, is_active |-> TRUE]

RadicalAcceptance ==
    [id |-> 3, module_id |-> 2, name |-> "radical_acceptance",
     name_en |-> "Radical Acceptance",
     trigger_emotions |-> <<"despair", "shame", "sadness", "guilt">>,
     difficulty_level |-> 3, is_active |-> TRUE]

Observe ==
    [id |-> 4, module_id |-> 1, name |-> "observe", name_en |-> "Observe",
     trigger_emotions |-> <<"anxiety", "distraction", "confusion">>,
     difficulty_level |-> 1, is_active |-> TRUE]

high_arousal_anxiety ==
    [id |-> 1, rule_name |-> "high_arousal_anxiety", priority |-> 100,
     module_id |-> 2, skill_ids |-> <<1>>, is_active |-> TRUE,
     conditions |->
        [emotion_conditions |-> <<[emotion |-> "anxiety", operator |-> ">=", value |-> 50]>>,
         trigger_signals |-> <<[signal |-> "agitation_level", operator |-> ">=", value |-> 40]>>,
         arousal |-> [operator |-> ">=", value |-> 60]]]

impulse_control ==
    [id |-> 2, rule_name |-> "impulse_control", priority |-> 95,
     module_id |-> 2, skill_ids |-> <<2, 1>>, is_active |-> TRUE,
     conditions |->
        [trigger_signals |-> <<[signal |-> "self_harm_impulse", operator |-> ">=", value |-> 30]>>]]

interpersonal_conflict ==
    [id |-> 3, rule_name |-> "interpersonal_conflict", priority |-> 75,
     module_id |-> 4, skill_ids |-> <<6, 7>>, is_active |-> TRUE,
     conditions |->
        [context_contains |-> << <<"guan", "xi">>, <<"peng", "you">> >>,
         emotion_conditions |-> <<[emotion |-> "anger", operator |-> ">=", value |-> 30]>>]]

low_arousal_default ==
    [id |-> 4, rule_name |-> "low_arousal_default", priority |-> 10,
     module_id |-> 1, skill_ids |-> <<4, 5>>, is_active |-> TRUE,
     conditions |-> [arousal |-> [operator |-> "<", value |-> 40]]]

\* the table holding the given rows
Table(rows) == [i \in {r.id : r \in rows} |-> CHOOSE r \in rows : r.id = i]

Inactive(row) == [row EXCEPT !.is_active = FALSE]

SeedSkills == Table({TIPP, STOP, RadicalAcceptance, Observe})

SeedRules ==
    Table({high_arousal_anxiety, impulse_control, interpersonal_conflict,
           low_arousal_default})

\* the repository as init_database leaves it, the default settings, no call made
\* RecommendationConfig
DefaultSettings ==
    [max_skills_per_recommendation |-> 2, enable_llm_fallback |-> TRUE,
     enable_llm_reason |-> TRUE]

InitDBT ==
    /\ skills = SeedSkills
    /\ rules = SeedRules
    /\ matchCall = <<>>
    /\ settings = DefaultSettings
    /\ recommendCall = <<>>

----------------------------------------------------------------------------
(* Inputs of the risk specification *)

MaxRiskCalls == 2

ContextFlags == {"escalation_pattern", "self_critical_pattern"}

\* Scenario C of the specification: self_harm 0.8, despair 0.7, slope 0.35
ScenarioC ==
    [emotions |-> [ZeroEmotions EXCEPT !["self_harm"] = 80, !["despair"] = 70],
     slope    |-> 35,
     context  |-> {}]

RiskInputs ==
    { [emotions |-> [ZeroEmotions EXCEPT !["self_harm"] = sh, !["despair"] = de,
                                         !["agitation"] = ag, !["sadness"] = sa,
                                         !["anxiety"] = an, !["fear"] = an],
       slope    |-> sl,
       context  |-> cx] :
        sh \in {0, 41, 80}, de \in {0, 70}, ag \in {0, 50}, sa \in {0, 100},
        an \in {0, 100}, sl \in {-20, 0, 35}, cx \in {{}, {"escalation_pattern"}} }

RaiseValues == {45, 75}

\* the inputs that differ from x in one signal only, which is higher
RaisedInputs(x) ==
       UNION { { [x EXCEPT !.emotions[e] = v] :
                    v \in {w \in RaiseValues \cup {100} : w > x.emotions[e]} } :
               e \in EmotionNames }
    \cup { [x EXCEPT !.slope = v] : v \in {w \in {11, 35} : w > x.slope} }
    \cup { [x EXCEPT !.context = x.context \cup {f}] : f \in ContextFlags \ x.context }

FirstEvaluate ==
    /\ Len(riskCalls) = 0
    /\ \E x \in RiskInputs : EvaluateRisk(x)

RaisedEvaluate ==
    /\ Len(riskCalls) > 0
    /\ Len(riskCalls) < MaxRiskCalls
    /\ \E x \in RaisedInputs(Last(riskCalls).args) : EvaluateRisk(x)

InitEngine ==
    /\ emotion_history = <<>>
    /\ riskCalls = <<>>

InitRisk ==
    /\ InitEngine
    /\ Idle
    /\ crisis_keywords = DefaultCrisisKeywords
    /\ l2_threshold = 50
    /\ routeCall = <<>>
    /\ InitDBT

NextRisk == FirstEvaluate \/ RaisedEvaluate

SpecRisk == InitRisk /\ [][NextRisk]_vars

----------------------------------------------------------------------------
(* C2: every evaluate_risk call returns exactly one of the four risk levels,
   and a call that raises one signal of the previous call (an emotion score,
   the slope, or a context flag turned on) never returns a lower level. *)
RiskLevelMonotone ==
    /\ \A i \in 1..Len(riskCalls) :
          Cardinality({k \in 1..4 : RiskLevels[k] = riskCalls[i].result.risk_level}) = 1
    /\ \A i \in 1..(Len(riskCalls) - 1) :
          RiskRank(riskCalls[i].result.risk_level)
              <= RiskRank(riskCalls[i + 1].result.risk_level)

\* a raised signal did lift the level
RiskLevelRaised ==
    /\ Len(riskCalls) = 2
    /\ riskCalls[1].result.risk_level = "MEDIUM"
    /\ riskCalls[2].result.risk_level = "CRITICAL"

(* C3 as stated: Scenario C returns CRITICAL, triggered, urgency >= 0.8 *)
ScenarioCUrgencyAtLeast08 ==
    \A i \in 1..Len(riskCalls) :
        riskCalls[i].args = ScenarioC =>
            /\ riskCalls[i].result.risk_level = "CRITICAL"
            /\ riskCalls[i].result.triggered
            /\ riskCalls[i].result.urgency_score >= 8000

(* C3 amended: Scenario C returns CRITICAL (risk score 80 >= 70), triggered,
   and urgency_score 0.49 = 0.35*0.8 + 0.25*0.7 + 0.05*min(2*0.35, 1) *)
ScenarioCResult ==
    \A i \in 1..Len(riskCalls) :
        riskCalls[i].args = ScenarioC =>
            /\ risk_score(ScenarioC.emotions, ScenarioC.slope, ScenarioC.context) = 80
            /\ riskCalls[i].result.risk_level = "CRITICAL"
            /\ riskCalls[i].result.triggered
            /\ riskCalls[i].result.urgency_score = 4900

ScenarioCEvaluated ==
    /\ Len(riskCalls) > 0
    /\ riskCalls[1].args = ScenarioC

----------------------------------------------------------------------------
(* Inputs of the routing specification *)

NoFeatures == [k \in {} |-> 0]

Texts ==
    { <<>>,
      <<"ni", "hao">>,
      <<"wo", "xiang", "zi", "sha">>,
      <<"S", "O", "S">>,
      <<"s", "o", "s">> }

\* keyword lists a deployment can configure (l3_crisis_keywords)
KeywordConfigs ==
    { DefaultCrisisKeywords,
      << <<"S", "O", "S">> >>,
      << <<"s", "o", "s">>, <<"zi", "sha">> >>,
      <<>> }

RouteEmotions ==
    { [ZeroEmotions EXCEPT !["self_harm"] = sh, !["despair"] = de,
                           !["emptiness"] = em, !["agitation"] = ag,
                           !["sadness"] = sa] :
        sh \in {0, 35, 55}, de \in {0, 35, 45}, em \in {0, 35},
        ag \in {0, 80}, sa \in {0, 25} }

AudioFeatures ==
    { NoFeatures, [jitter |-> 60], [jitter |-> 35], [tempo |-> 50],
      [tempo |-> 200, energy |-> 60], [tempo |-> 150, energy |-> 60],
      [energy |-> 10] }

VideoFeatures ==
    { NoFeatures, [edge_density |-> 10], [edge_density |-> 25],
      [edge_density |-> 35] }

RouteInputs ==
    [text : Texts, emotions : RouteEmotions, audio : AudioFeatures,
     video : VideoFeatures]

InitRoute ==
    /\ InitEngine
    /\ Idle
    /\ crisis_keywords \in KeywordConfigs
    /\ l2_threshold \in {50, 70}
    /\ routeCall = <<>>
    /\ InitDBT

\* one call per behaviour: route keeps no state between calls
NextRoute == routeCall = <<>> /\ \E x \in RouteInputs : Route(x)

SpecRoute == InitRoute /\ [][NextRoute]_vars

\* a RouteResult of the crisis phase
IsCrisisResult(r) ==
    /\ r.level = "L3_CRISIS"
    /\ r.crisis_flag
    /\ r.requires_dbt
    /\ r.confidence = 10000

\* the Phase-A conditions on the emotion, audio and video features
FeatureCrisisCondition(x) ==
    \/ Get(x.emotions, "self_harm") > 50
    \/ Get(x.emotions, "despair") > 40
    \/ Get(x.emotions, "emptiness") > 30 /\ Get(x.emotions, "despair") > 30
    \/ Get(x.emotions, "self_harm") > 30 /\ Get(x.emotions, "despair") > 30
    \/ "jitter" \in DOMAIN x.audio /\ x.audio["jitter"] > 50
    \/ "tempo" \in DOMAIN x.audio /\ (x.audio["tempo"] < 60 \/ x.audio["tempo"] > 180)
    \/ "edge_density" \in DOMAIN x.video /\ x.video["edge_density"] > 30

\* the text contains one of the configured keywords
TextContainsKeyword(x) ==
    \E i \in 1..Len(crisis_keywords) : IsSubstring(crisis_keywords[i], x.text)

(* C1: whenever a Phase-A crisis condition holds (the text contains a
   configured crisis keyword, or one of the emotion, audio or video
   conditions), route returns L3_CRISIS with crisis_flag, requires_dbt and
   confidence 1.0, whatever the other signals are. *)
CrisisAlwaysWins ==
    routeCall # <<>> =>
        LET x == routeCall[1].args
        IN  (TextContainsKeyword(x) \/ FeatureCrisisCondition(x))
                => IsCrisisResult(routeCall[1].result)

(* C1, the part the code keeps: a feature condition, or a configured keyword
   found in the lowered text, always gives the crisis result; the
   intervention phase never overrides it. *)
CrisisWinsWhenDetected ==
    routeCall # <<>> =>
        LET x == routeCall[1].args
        IN  (FeatureCrisisCondition(x)
             \/ \E i \in 1..Len(crisis_keywords) :
                    IsSubstring(crisis_keywords[i], lower(x.text)))
                => IsCrisisResult(routeCall[1].result)

\* a crisis call whose features alone would have triggered the intervention phase
CrisisOverIntervention ==
    /\ routeCall # <<>>
    /\ routeCall[1].result.level = "L3_CRISIS"
    /\ check_intervention_needed(routeCall[1].args.emotions, routeCall[1].args.audio,
                                 routeCall[1].args.video).level = "L2_INTERVENTION"

----------------------------------------------------------------------------
(* The matcher on small repositories. *)

SkillTables ==
    {SeedSkills,
     Table({}),
     Table({TIPP}),
     Table({Inactive(TIPP), STOP, RadicalAcceptance, Observe}),
     Table({RadicalAcceptance, Observe})}

RuleTables ==
    {SeedRules,
     Table({}),
     Table({high_arousal_anxiety}),
     Table({Inactive(high_arousal_anxiety)}),
     Table({high_arousal_anxiety, impulse_control}),
     Table({impulse_control, low_arousal_default})}

NoSignals ==
    [self_harm_impulse |-> 0, despair_level |-> 0, agitation_level |-> 0,
     emptiness_level |-> 0, shame_level |-> 0, emotion_slope |-> 0,
     negative_total |-> 0]

MatchEmotions ==
    {<<>>,
     << <<"anxiety", 70>>, <<"sadness", 20>> >>,
     << <<"anxiety", 30>>, <<"disgust", 90>> >>,
     << <<"anxiety", 50>>, <<"sadness", 50>> >>,
     << <<"sadness", 50>>, <<"anxiety", 50>> >>,
     << <<"anxiety", 20>> >>,
     << <<"anger", 60>>, <<"anxiety", 10>> >>}

MatchSignals ==
    {[NoSignals EXCEPT !.agitation_level = a, !.self_harm_impulse = s] :
        a \in {0, 50}, s \in {0, 40}}

\* "" and 朋友
MatchContexts == {<<>>, <<"peng", "you">>}

UserProfiles == {<<>>, <<[stability_score |-> 30]>>, <<[stability_score |-> 80]>>}

MatchRequests ==
    [emotions : MatchEmotions, arousal : {30, 80}, trigger_signals : MatchSignals,
     risk_level : {"LOW"}, urgency_score : {20}, user_profile : UserProfiles,
     last_skill_used : {""}, context : MatchContexts]

MaxSkillsBound == 3

InitMatch ==
    /\ InitEngine
    /\ Idle
    /\ crisis_keywords = DefaultCrisisKeywords
    /\ l2_threshold = 50
    /\ routeCall = <<>>
    /\ skills \in SkillTables
    /\ rules \in RuleTables
    /\ matchCall = <<>>
    /\ settings = DefaultSettings
    /\ recommendCall = <<>>

\* one call per behaviour: match keeps no state between calls
NextMatch ==
    /\ matchCall = <<>>
    /\ \E request \in MatchRequests, max_skills \in 0..MaxSkillsBound :
          Match(request, max_skills)

SpecMatch == InitMatch /\ [][NextMatch]_vars

\* the last match call
TheMatch == matchCall[1]

SkillIdsOf(result) == [i \in 1..Len(result.skills) |-> result.skills[i].skill_id]

NoDuplicates(s) == \A i, j \in 1..Len(s) : s[i] = s[j] => i = j

ActiveRules == {i \in DOMAIN rules : rules[i].is_active}

(* C4: whatever the request, the repository and max_skills >= 0, the skills
   of a MatchResult are at most max_skills and no two have the same
   skill_id. *)
MatchBounded ==
    matchCall # <<>> =>
        /\ Len(TheMatch.result.skills) <= TheMatch.max_skills
        /\ NoDuplicates(SkillIdsOf(TheMatch.result))

\* two matched rules list TIPP, three distinct ids are cut to max_skills
MatchCutsSharedSkills ==
    /\ matchCall # <<>>
    /\ rules = SeedRules /\ skills = SeedSkills
    /\ TheMatch.max_skills = 2
    /\ TheMatch.result.matched_rules
          = <<"high_arousal_anxiety", "impulse_control", "low_arousal_default">>
       \/ TheMatch.result.matched_rules = <<"high_arousal_anxiety", "impulse_control">>
    /\ Len(TheMatch.result.skills) = 2

\* the emotion fallback was taken and its two skills cut to one
MatchCutsFallback ==
    /\ matchCall # <<>>
    /\ ActiveRules = {}
    /\ TheMatch.max_skills = 1
    /\ TheMatch.result.matched_rules = <<"emotion_fallback_anxiety">>
    /\ Len(TheMatch.result.skills) = 1

\* an active skill declares the emotion
Declared(emotion) ==
    \E i \in DOMAIN skills :
        skills[i].is_active /\ InSeq(emotion, skills[i].trigger_emotions)

FallbackAnswered(emotion) ==
    /\ Len(TheMatch.result.skills) >= 1
    /\ InSeq("emotion_fallback_" \o emotion, TheMatch.result.matched_rules)

(* C5 as stated: with no active rule and max_skills >= 1, ANY emotion of the
   request that scores >= 0.3 and is declared by an active skill gets a
   non-empty result tagged emotion_fallback_<emotion>, whatever the other
   emotions score. *)
FallbackForAnyEmotion ==
    matchCall # <<>> /\ ActiveRules = {} /\ TheMatch.max_skills >= 1 =>
        \A i \in 1..Len(TheMatch.request.emotions) :
            LET e == TheMatch.request.emotions[i]
            IN  e[2] >= 30 /\ Declared(e[1]) => FallbackAnswered(e[1])

\* the request's strongest emotion, the first of them when several tie
Strongest(emotions, i) ==
    /\ \A j \in 1..Len(emotions) : emotions[j][2] <= emotions[i][2]
    /\ \A j \in 1..Len(emotions) : emotions[j][2] = emotions[i][2] => i <= j

(* C5 as the code has it: with no active rule and max_skills >= 1, the
   request's strongest emotion (the first one listed among equals), when it
   scores >= 0.3 and is declared by an active skill, gets a non-empty result
   tagged emotion_fallback_<emotion>. *)
FallbackForStrongestEmotion ==
    matchCall # <<>> /\ ActiveRules = {} /\ TheMatch.max_skills >= 1 =>
        \A i \in 1..Len(TheMatch.request.emotions) :
            LET e == TheMatch.request.emotions[i]
            IN  Strongest(TheMatch.request.emotions, i) /\ e[2] >= 30 /\ Declared(e[1])
                    => FallbackAnswered(e[1])

\* the fallback answered a tie between anxiety and sadness for the first of
\* them, with only TIPP to offer
FallbackTaken ==
    /\ matchCall # <<>>
    /\ ActiveRules = {}
    /\ skills = Table({TIPP})
    /\ TheMatch.request.emotions = << <<"anxiety", 50>>, <<"sadness", 50>> >>
    /\ TheMatch.max_skills >= 1
    /\ FallbackAnswered("anxiety")

\* what the rule's conditions ask of a request, read off the rule
Compare(actual, operator, expected) ==
    CASE operator = ">=" -> actual >= expected
      [] operator = ">"  -> actual > expected
      [] operator = "<=" -> actual <= expected
      [] operator = "<"  -> actual < expected
      [] operator = "==" -> actual = expected
      [] operator = "!=" -> actual # expected
      [] OTHER -> FALSE

RuleHolds(rule, request) ==
    LET c == rule.conditions
    IN  /\ "emotion_conditions" \in DOMAIN c =>
            \A i \in 1..Len(c.emotion_conditions) :
                Compare(DictGet(request.emotions, c.emotion_conditions[i].emotion),
                        c.emotion_conditions[i].operator, c.emotion_conditions[i].value)
        /\ "trigger_signals" \in DOMAIN c =>
            \A i \in 1..Len(c.trigger_signals) :
                Compare(request.trigger_signals[c.trigger_signals[i].signal],
                        c.trigger_signals[i].operator, c.trigger_signals[i].value)
        /\ "arousal" \in DOMAIN c =>
            Compare(request.arousal, c.arousal.operator, c.arousal.value)
        /\ "context_contains" \in DOMAIN c =>
            \E i \in 1..Len(c.context_contains) :
                IsSubstring(c.context_contains[i], request.context)
        /\ "risk_level" \in DOMAIN c => InSeq(request.risk_level, c.risk_level)

(* C6: when exactly one rule is active, the request satisfies all of its
   conditions and the one skill it lists is in the repository, match (asked
   for at least one skill) returns that skill first, with 0 < match_score <= 1
   and a non-empty match_reason, and names the rule in matched_rules. *)
SingleRuleMatched ==
    matchCall # <<>> /\ TheMatch.max_skills >= 1 =>
        \A r \in ActiveRules :
            /\ ActiveRules = {r}
            /\ RuleHolds(rules[r], TheMatch.request)
            /\ Len(rules[r].skill_ids) = 1
            /\ rules[r].skill_ids[1] \in DOMAIN skills
            => /\ TheMatch.result.skills # <<>>
               /\ TheMatch.result.skills[1].skill_id = rules[r].skill_ids[1]
               /\ TheMatch.result.skills[1].match_score > 0
               /\ TheMatch.result.skills[1].match_score <= 60000
               /\ TheMatch.result.skills[1].match_reason # <<>>
               /\ InSeq(rules[r].rule_name, TheMatch.result.matched_rules)

\* Scenario B: anxiety 0.7, sadness 0.2, arousal 0.8, agitation 0.5 against
\* the one rule high_arousal_anxiety gives TIPP
ScenarioBMatched ==
    /\ matchCall # <<>>
    /\ rules = Table({high_arousal_anxiety})
    /\ TheMatch.request.emotions = << <<"anxiety", 70>>, <<"sadness", 20>> >>
    /\ TheMatch.request.arousal = 80
    /\ TheMatch.request.trigger_signals.agitation_level = 50
    /\ TheMatch.max_skills = 2
    /\ TheMatch.result.skills # <<>>
    /\ TheMatch.result.skills[1].skill_name = "TIPP"
    /\ TheMatch.result.matched_rules = <<"high_arousal_anxiety">>

----------------------------------------------------------------------------
(* The recommendation engine on small repositories and settings. *)

RecommendSkillTables == {SeedSkills, Table({}), Table({RadicalAcceptance, STOP})}

RecommendRuleTables == {SeedRules, Table({})}

SettingsChoices ==
    [max_skills_per_recommendation : {2}, enable_llm_fallback : BOOLEAN,
     enable_llm_reason : BOOLEAN]

RecommendEmotions ==
    {<<>>,
     << <<"anxiety", 70>>, <<"sadness", 20>> >>,
     << <<"despair", 80>>, <<"sadness", 60>> >>}

RecommendRequests ==
    [emotions : RecommendEmotions, arousal : {30, 65, 90},
     trigger_signals : {NoSignals, [NoSignals EXCEPT !.despair_level = 70]},
     risk_level : {"LOW", "MEDIUM", "HIGH", "CRITICAL"}, urgency_score : {20, 65, 90},
     user_profile : {<<>>}, last_skill_used : {""}, context : {<<>>}]

Failed == [kind : {"malformed", "exception", "timeout"}, content : {<<>>}]

Answered(contents) == [kind : {"text"}, content : contents]

\* answers to the edge-case prompt: one name, two names, a name twice, blanks,
\* a name the repository does not have, a sentence
EdgeOutcomes ==
    Failed \cup Answered({<<"TIPP">>, <<"STOP", ",", " ", "observe">>,
                          <<"TIPP", "dun_comma", "TIPP">>, <<" ", "newline">>,
                          <<"deep_breathing">>, <<"long_text">>})

\* answers to the reason prompt: a sentence, with blanks around it, nothing,
\* blanks only
ReasonOutcomes ==
    Failed \cup Answered({<<"warm_words">>, <<" ", "warm_words", "newline">>,
                          <<>>, <<" ", "newline">>})

InitRecommend ==
    /\ InitEngine
    /\ Idle
    /\ crisis_keywords = DefaultCrisisKeywords
    /\ l2_threshold = 50
    /\ routeCall = <<>>
    /\ skills \in RecommendSkillTables
    /\ rules \in RecommendRuleTables
    /\ matchCall = <<>>
    /\ settings \in SettingsChoices
    /\ recommendCall = <<>>

\* the outcome of an LLM call that is not made is of no account: only the
\* first of them is tried then
EdgeCallMade(request) ==
    settings.enable_llm_fallback
    /\ match(request, settings.max_skills_per_recommendation).skills = <<>>

\* one call per behaviour: recommend keeps no state between calls
NextRecommend ==
    /\ recommendCall = <<>>
    /\ \E request \in RecommendRequests, edge_outcome \in EdgeOutcomes,
          reason_outcome \in ReasonOutcomes :
          /\ EdgeCallMade(request) \/ edge_outcome = [kind |-> "exception", content |-> <<>>]
          /\ Recommend(request, edge_outcome, reason_outcome)

SpecRecommend == InitRecommend /\ [][NextRecommend]_vars

TheRecommend == recommendCall[1]

(* C7: recommend returns a recommendation_reason that is not the empty
   string, whatever the LLM calls give (text, blank text, malformed payload,
   exception, timeout) and whatever enable_llm_fallback and enable_llm_reason
   are. *)
ReasonNeverEmpty ==
    recommendCall # <<>> => TheRecommend.result.recommendation_reason # <<>>

\* the part that holds: the reason is not empty unless the LLM answered the
\* reason prompt with nothing but white space
ReasonEmptyOnlyForBlankAnswer ==
    recommendCall # <<>> /\ TheRecommend.result.recommendation_reason = <<>> =>
        /\ settings.enable_llm_reason
        /\ TheRecommend.result.recommended_skills # <<>>
        /\ TheRecommend.reason_outcome.kind = "text"
        /\ strip(TheRecommend.reason_outcome.content) = <<>>

(* C8: every recommendation carries a guidance strategy whose approach,
   intensity and tone are set and whose key_points has at least one entry,
   for every risk level, urgency, arousal and repository content. *)
GuidancePopulated ==
    recommendCall # <<>> =>
        /\ TheRecommend.result.guidance_strategy.approach
              \in {"EMPATHY_FIRST", "SKILL_ORIENTED", "SCENARIO_PRACTICE"}
        /\ TheRecommend.result.guidance_strategy.intensity
              \in {"LIGHT_REMINDER", "STANDARD_TRAINING", "CRISIS_PRIORITY"}
        /\ TheRecommend.result.guidance_strategy.tone \in {"WARM", "CALM", "ENCOURAGING"}
        /\ TheRecommend.result.guidance_strategy.key_points # <<>>

\* the part that holds: key_points is empty only for a skill-oriented
\* recommendation without any skill
KeyPointsEmptyOnlyWithoutSkill ==
    recommendCall # <<>> /\ TheRecommend.result.guidance_strategy.key_points = <<>> =>
        /\ TheRecommend.result.guidance_strategy.approach = "SKILL_ORIENTED"
        /\ TheRecommend.result.recommended_skills = <<>>

(* C10: a request at risk level HIGH gets the tone WARM; the repository's
   test asks it of arousal 0.9 and urgency 0.9. *)
HighRiskIsWarm ==
    recommendCall # <<>> /\ TheRecommend.request.risk_level = "HIGH" =>
        TheRecommend.result.guidance_strategy.tone = "WARM"

\* the part that holds: HIGH risk is WARM unless arousal is above 0.7
HighRiskIsWarmUnlessAroused ==
    recommendCall # <<>> /\ TheRecommend.request.risk_level = "HIGH"
        /\ TheRecommend.request.arousal <= 70 =>
        TheRecommend.result.guidance_strategy.tone = "WARM"

----------------------------------------------------------------------------
(* Repeated calls: route, match and evaluate_risk in any order. *)

MaxIdemCalls == 2

\* a crisis text, an agitated state, small talk
IdemRouteInputs ==
    {[text |-> <<"wo", "xiang", "zi", "sha">>, emotions |-> ZeroEmotions,
      audio |-> NoFeatures, video |-> NoFeatures],
     [text |-> <<"ni", "hao">>,
      emotions |-> [ZeroEmotions EXCEPT !["agitation"] = 80, !["despair"] = 45],
      audio |-> [jitter |-> 35], video |-> NoFeatures],
     [text |-> <<"ni", "hao">>, emotions |-> ZeroEmotions,
      audio |-> NoFeatures, video |-> NoFeatures]}

\* Scenario B, which a rule answers, and a request left to the emotion fallback
IdemMatchRequests ==
    {[emotions |-> << <<"anxiety", 70>>, <<"sadness", 20>> >>, arousal |-> 80,
      trigger_signals |-> [NoSignals EXCEPT !.agitation_level = 50],
      risk_level |-> "LOW", urgency_score |-> 20, user_profile |-> <<>>,
      last_skill_used |-> "", context |-> <<>>],
     [emotions |-> << <<"sadness", 50>>, <<"anxiety", 50>> >>, arousal |-> 80,
      trigger_signals |-> NoSignals,
      risk_level |-> "LOW", urgency_score |-> 20, user_profile |-> <<>>,
      last_skill_used |-> "", context |-> <<>>]}

IdemRiskInputs == {ScenarioC, [ScenarioC EXCEPT !.emotions = ZeroEmotions, !.slope = 0]}

InitIdem ==
    /\ InitEngine
    /\ Idle
    /\ crisis_keywords = DefaultCrisisKeywords
    /\ l2_threshold \in {50, 70}
    /\ routeCall = <<>>
    /\ InitDBT

RouteAgain ==
    /\ Len(routeCall) < MaxIdemCalls
    /\ \E x \in IdemRouteInputs : Route(x)

MatchAgain ==
    /\ Len(matchCall) < MaxIdemCalls
    /\ \E request \in IdemMatchRequests, max_skills \in 1..2 :
          Match(request, max_skills)

EvaluateAgain ==
    /\ Len(riskCalls) < MaxIdemCalls
    /\ \E x \in IdemRiskInputs : EvaluateRisk(x)

NextIdem == RouteAgain \/ MatchAgain \/ EvaluateAgain

SpecIdem == InitIdem /\ [][NextIdem]_vars

(* C9: two route calls with the same arguments return the same RouteResult,
   and two match calls with the same request and max_skills on the unchanged
   repository return the same MatchResult, whatever route, match and
   evaluate_risk calls were made around them. *)
Idempotent ==
    /\ \A i, j \in 1..Len(routeCall) :
          routeCall[i].args = routeCall[j].args
              => routeCall[i].result = routeCall[j].result
    /\ \A i, j \in 1..Len(matchCall) :
          /\ matchCall[i].request = matchCall[j].request
          /\ matchCall[i].max_skills = matchCall[j].max_skills
          => matchCall[i].result = matchCall[j].result

\* route and match were each called twice with the same input, and
\* evaluate_risk was called with the critical Scenario C and with no signal
RepeatedCalls ==
    /\ Len(routeCall) = 2 /\ routeCall[1].args = routeCall[2].args
    /\ routeCall[1].result.level = "L1_QUICK"
    /\ Len(matchCall) = 2 /\ matchCall[1].request = matchCall[2].request
    /\ matchCall[1].max_skills = matchCall[2].max_skills
    /\ matchCall[1].result.skills # <<>>
    /\ Len(riskCalls) = 2
    /\ riskCalls[1].args # riskCalls[2].args

----------------------------------------------------------------------------
(* Further properties of evaluate_risk, over the calls of SpecRisk. *)

SignalFields ==
    {"self_harm_impulse", "despair_level", "agitation_level", "emptiness_level",
     "shame_level", "emotion_slope", "negative_total"}

ScoresInUnitRange(emotions) == \A e \in DOMAIN emotions : emotions[e] \in 0..100

(* C11: for emotion scores in [0,1] and any slope, trigger_signals has all
   seven fields and every field other than emotion_slope lies in [0,1]. *)
TriggerSignalsInUnitRange ==
    \A i \in 1..Len(riskCalls) :
        ScoresInUnitRange(riskCalls[i].args.emotions) =>
            /\ DOMAIN riskCalls[i].result.trigger_signals = SignalFields
            /\ \A f \in SignalFields \ {"emotion_slope"} :
                  riskCalls[i].result.trigger_signals[f] \in 0..100

\* the part that holds: all seven fields are there, the five that copy one
\* emotion lie in [0,1], and negative_total, a sum of five, lies in [0,5]
TriggerSignalsPopulated ==
    \A i \in 1..Len(riskCalls) :
        ScoresInUnitRange(riskCalls[i].args.emotions) =>
            /\ DOMAIN riskCalls[i].result.trigger_signals = SignalFields
            /\ \A f \in SignalFields \ {"emotion_slope", "negative_total"} :
                  riskCalls[i].result.trigger_signals[f] \in 0..100
            /\ riskCalls[i].result.trigger_signals.negative_total \in 0..500
            /\ riskCalls[i].result.trigger_signals.emotion_slope = riskCalls[i].args.slope

\* the additive score as the specification states it: the compound negative
\* term sums sadness, anxiety, fear, anger and guilt
SpecifiedRiskScore(emotions, slope, context) ==
      (IF emotions["self_harm"] > 70 THEN 40 ELSE IF emotions["self_harm"] > 40 THEN 20 ELSE 0)
    + (IF emotions["despair"] > 70 THEN 30 ELSE IF emotions["despair"] > 40 THEN 15 ELSE 0)
    + (IF emotions["agitation"] > 70 THEN 20 ELSE IF emotions["agitation"] > 40 THEN 10 ELSE 0)
    + (IF slope > 30 THEN 25 ELSE IF slope > 10 THEN 15 ELSE 0)
    + (IF emotions["sadness"] + emotions["anxiety"] + emotions["fear"]
          + emotions["anger"] + emotions["guilt"] > 300 THEN 15
       ELSE IF emotions["sadness"] + emotions["anxiety"] + emotions["fear"]
          + emotions["anger"] + emotions["guilt"] > 200 THEN 10 ELSE 0)
    + (IF "escalation_pattern" \in context THEN 10 ELSE 0)
    + (IF "self_critical_pattern" \in context THEN 5 ELSE 0)
    + (IF emotions["emptiness"] > 60 THEN 10 ELSE 0)

SpecifiedRiskLevel(score) ==
    IF score >= 70 THEN "CRITICAL" ELSE IF score >= 50 THEN "HIGH"
    ELSE IF score >= 30 THEN "MEDIUM" ELSE "LOW"

(* C17: the risk level of every evaluate_risk call is the level of the
   additive score of the specification, whose compound negative term sums
   sadness, anxiety, fear, anger and guilt (>3.0 +15, >2.0 +10), mapped
   >=70 CRITICAL, >=50 HIGH, >=30 MEDIUM, else LOW. *)
RiskLevelAsSpecified ==
    \A i \in 1..Len(riskCalls) :
        riskCalls[i].result.risk_level =
            SpecifiedRiskLevel(SpecifiedRiskScore(riskCalls[i].args.emotions,
                                   riskCalls[i].args.slope, riskCalls[i].args.context))

\* the part that holds: the levels agree whenever anger and shame score the
\* same, the code summing shame where the specification sums anger
RiskLevelAsSpecifiedWhenAngerIsShame ==
    \A i \in 1..Len(riskCalls) :
        riskCalls[i].args.emotions["anger"] = riskCalls[i].args.emotions["shame"] =>
            riskCalls[i].result.risk_level =
                SpecifiedRiskLevel(SpecifiedRiskScore(riskCalls[i].args.emotions,
                                       riskCalls[i].args.slope, riskCalls[i].args.context))

(* C18: for emotion scores in [0,1] and any slope, a negative one included,
   the urgency_score of evaluate_risk lies in [0,1]. *)
UrgencyInUnitRange ==
    \A i \in 1..Len(riskCalls) :
        ScoresInUnitRange(riskCalls[i].args.emotions) =>
            /\ riskCalls[i].result.urgency_score >= 0
            /\ riskCalls[i].result.urgency_score <= 10000

\* the part that holds: the urgency never exceeds 1, and is not negative
\* when the slope is not
UrgencyClampedAbove ==
    \A i \in 1..Len(riskCalls) :
        ScoresInUnitRange(riskCalls[i].args.emotions) =>
            /\ riskCalls[i].result.urgency_score <= 10000
            /\ riskCalls[i].args.slope >= 0 => riskCalls[i].result.urgency_score >= 0

----------------------------------------------------------------------------
(* recommend over a repository whose query may raise, together with the
   stages recommend awaits, in the order it awaits them. *)

\* session.execute of the first query of a call, the rule lookup of match:
\* it returns rows, or it raises
LookupOutcomes == {"rows", "raises"}

\* step 3 of recommend
ReasonStage ==
    IF settings.enable_llm_reason THEN <<"generate_recommendation_reason">>
    ELSE <<"get_simple_reason">>

DefaultStage(match_result) ==
    IF match_result.skills = <<>> THEN <<"get_default_recommendation">> ELSE <<>>

\* recommend_stages with the edge-case stage run whatever the settings say
recommend_stages_edge_case_always(match_result, request, edge_outcome) ==
    <<"match">>
    \o (IF match_result.skills = <<>> THEN <<"handle_edge_case">> ELSE <<>>)
    \o DefaultStage(AfterEdgeCase(match_result, request, edge_outcome))
    \o ReasonStage

\* the stages of one recommend call whose match returned match_result
recommend_stages(match_result, request, edge_outcome) ==
    <<"match">>
    \o (IF match_result.skills = <<>> /\ settings.enable_llm_fallback
        THEN <<"handle_edge_case">> ELSE <<>>)
    \o DefaultStage(AfterEdgeCase(match_result, request, edge_outcome))
    \o ReasonStage

\* recommend has no handler around match, and match none around its lookups:
\* an exception of the rule lookup leaves recommend as it was raised
recommend_with_lookup(request, lookup, edge_outcome, reason_outcome) ==
    IF lookup = "raises"
    THEN [raised |-> TRUE, stages |-> <<"match">>, value |-> <<>>]
    ELSE [raised |-> FALSE,
          stages |-> recommend_stages(match(request, settings.max_skills_per_recommendation),
                                      request, edge_outcome),
          value  |-> recommend(request, edge_outcome, reason_outcome)]

\* one call of recommend over a repository that answers or raises
RecommendWithLookup(request, lookup, edge_outcome, reason_outcome) ==
    /\ recommendCall' = Append(recommendCall,
            [request |-> request, lookup |-> lookup, edge_outcome |-> edge_outcome,
             reason_outcome |-> reason_outcome,
             result |-> recommend_with_lookup(request, lookup, edge_outcome,
                                              reason_outcome)])
    /\ UNCHANGED <<repoVars, matchCall, settings, riskVars, routerVars, concVars>>

\* one call per behaviour; the outcomes of calls that are not made are of no
\* account, only the first of them is tried then
NextLookup ==
    /\ recommendCall = <<>>
    /\ \E request \in RecommendRequests, lookup \in LookupOutcomes,
          edge_outcome \in EdgeOutcomes, reason_outcome \in ReasonOutcomes :
          /\ \/ lookup = "rows" /\ EdgeCallMade(request)
             \/ edge_outcome = [kind |-> "exception", content |-> <<>>]
          /\ lookup = "rows" \/ reason_outcome = [kind |-> "exception", content |-> <<>>]
          /\ RecommendWithLookup(request, lookup, edge_outcome, reason_outcome)

SpecLookup == InitRecommend /\ [][NextLookup]_vars

(* C12: when the rule lookup of the repository raises during recommend,
   recommend does not raise: it returns the default recommendation (TIPP
   when the risk is HIGH or CRITICAL or the arousal is above 0.6, otherwise
   Observe) with a reason that is not empty. *)
LookupFailureGivesDefault ==
    \A i \in 1..Len(recommendCall) :
        recommendCall[i].lookup = "raises" =>
            /\ ~recommendCall[i].result.raised
            /\ recommendCall[i].result.value.recommended_skills =
                   get_default_recommendation(recommendCall[i].request).skills
            /\ recommendCall[i].result.value.recommendation_reason # <<>>

\* Rank of a stage in the order of recommend
StageRank(stage) ==
    CASE stage = "match" -> 1
      [] stage = "handle_edge_case" -> 2
      [] stage = "get_default_recommendation" -> 3
      [] OTHER -> 4

Times(stage, stages) == Cardinality({j \in 1..Len(stages) : stages[j] = stage})

\* the stages of a call, against what match returned for it
StagesFollow(call, match_result) ==
    /\ call.result.stages[1] = "match"
    /\ \A j \in 1..(Len(call.result.stages) - 1) :
           StageRank(call.result.stages[j]) < StageRank(call.result.stages[j + 1])
    /\ Times("handle_edge_case", call.result.stages) =
           (IF match_result.skills = <<>> /\ settings.enable_llm_fallback THEN 1 ELSE 0)
    /\ Times("get_default_recommendation", call.result.stages) =
           (IF /\ match_result.skills = <<>>
               /\ \/ ~settings.enable_llm_fallback
                  \/ handle_edge_case(llm_handle_edge_case(call.request,
                                                           call.edge_outcome)).skills = <<>>
            THEN 1 ELSE 0)
    /\ Times("generate_recommendation_reason", call.result.stages) <= 1
    /\ match_result.skills # <<>> =>
           /\ Len(call.result.stages) = 2
           /\ call.result.value.recommended_skills = match_result.skills
           /\ call.result.value.metadata.matched_rules = match_result.matched_rules

(* C13: recommend consults rule matching, then the LLM edge-case
   classifier, then the deterministic default, in that order: the
   classifier runs only if matching returned no skill and
   enable_llm_fallback is set, the default only if there is still no skill
   after that, neither of them when matching returned a skill, and each LLM
   operation runs at most once in a call. *)
StagesInOrder ==
    \A i \in 1..Len(recommendCall) :
        ~recommendCall[i].result.raised =>
            StagesFollow(recommendCall[i],
                         match(recommendCall[i].request,
                               settings.max_skills_per_recommendation))

\* a call that went through all three stages and then asked for the reason
AllStagesRan ==
    /\ recommendCall # <<>>
    /\ recommendCall[1].result.stages =
           <<"match", "handle_edge_case", "get_default_recommendation",
             "generate_recommendation_reason">>

----------------------------------------------------------------------------
(* EmotionRecognitionEngine.analyze, several calls in progress at once on
   one engine.  A call runs the statements that touch conversation_history
   one at a time, and the statements of different calls interleave: no lock
   is held around them. *)

\* the length conversation_history[user_id] is cut back to
history_cap == 50

MaxAnalyzeCalls == 3

AnalyzeIds == 1..MaxAnalyzeCalls

\* the record of call c is c; the records of earlier calls are below 0,
\* the oldest first
OldRecords(n) == [i \in 1..n |-> i - n - 1]

\* "new" has no history yet, "known" is one record below the cap
InitialHistory == [user_id \in {"known"} |-> OldRecords(history_cap - 1)]

Users == {"new", "known"}

InitAnalyze ==
    /\ InitEngine
    /\ crisis_keywords = DefaultCrisisKeywords
    /\ l2_threshold = 50
    /\ routeCall = <<>>
    /\ InitDBT
    /\ conversation_history = InitialHistory
    /\ analyzeCalls = [c \in AnalyzeIds |-> [pc |-> "idle", user_id |-> ""]]
    /\ matchRun = [pc |-> "idle"]

At(c, pc) == analyzeCalls[c].pc = pc

Goto(c, pc) == analyzeCalls' = [analyzeCalls EXCEPT ![c].pc = pc]

LeaveRest == UNCHANGED <<riskVars, routerVars, dbtVars, matchRun>>

\* analyze(text, user_id) is entered; the calls are numbered as they enter
BeginAnalyze(c, user_id) ==
    /\ At(c, "idle")
    /\ IF c = 1 THEN TRUE ELSE ~At(c - 1, "idle")
    /\ analyzeCalls' = [analyzeCalls EXCEPT ![c] = [pc |-> "check", user_id |-> user_id]]
    /\ UNCHANGED conversation_history
    /\ LeaveRest

\* if user_id not in self.conversation_history:
CheckHistory(c) ==
    /\ At(c, "check")
    /\ Goto(c, IF analyzeCalls[c].user_id \in DOMAIN conversation_history
               THEN "append" ELSE "create")
    /\ UNCHANGED conversation_history
    /\ LeaveRest

\* self.conversation_history[user_id] = []
CreateHistory(c) ==
    /\ At(c, "create")
    /\ conversation_history' =
           [user_id \in DOMAIN conversation_history \cup {analyzeCalls[c].user_id} |->
               IF user_id = analyzeCalls[c].user_id THEN <<>>
               ELSE conversation_history[user_id]]
    /\ Goto(c, "append")
    /\ LeaveRest

\* self.conversation_history[user_id].append({...})
AppendRecord(c) ==
    /\ At(c, "append")
    /\ conversation_history' =
           [conversation_history EXCEPT ![analyzeCalls[c].user_id] = Append(@, c)]
    /\ Goto(c, "limit")
    /\ LeaveRest

\* if len(self.conversation_history[user_id]) > 50:
CheckLength(c) ==
    /\ At(c, "limit")
    /\ Goto(c, IF Len(conversation_history[analyzeCalls[c].user_id]) > history_cap
               THEN "pop" ELSE "done")
    /\ UNCHANGED conversation_history
    /\ LeaveRest

\* self.conversation_history[user_id].pop(0); IndexError on an empty list
PopOldest(c) ==
    /\ At(c, "pop")
    /\ IF conversation_history[analyzeCalls[c].user_id] = <<>>
       THEN Goto(c, "raised") /\ UNCHANGED conversation_history
       ELSE /\ conversation_history' =
                   [conversation_history EXCEPT ![analyzeCalls[c].user_id] = Tail(@)]
            /\ Goto(c, "done")
    /\ LeaveRest

NextAnalyze ==
    \E c \in AnalyzeIds :
        \/ \E user_id \in Users : BeginAnalyze(c, user_id)
        \/ CheckHistory(c)
        \/ CreateHistory(c)
        \/ AppendRecord(c)
        \/ CheckLength(c)
        \/ PopOldest(c)

SpecAnalyze == InitAnalyze /\ [][NextAnalyze]_vars

AllCompleted == \A c \in AnalyzeIds : At(c, "idle") \/ At(c, "done")

Completed(user_id) == {c \in AnalyzeIds : At(c, "done") /\ analyzeCalls[c].user_id = user_id}

HistoryOf(user_id) ==
    IF user_id \in DOMAIN conversation_history THEN conversation_history[user_id]
    ELSE <<>>

InitialLength(user_id) ==
    IF user_id \in DOMAIN InitialHistory THEN Len(InitialHistory[user_id]) ELSE 0

Occurrences(c, history) == Cardinality({i \in 1..Len(history) : history[i] = c})

(* C14: when the analyze calls that ran concurrently have completed, the
   history of every user holds exactly one record for each completed call
   of that user, up to the cap of 50: no record is lost or overwritten, the
   first calls of a new user included, and no call has changed another
   user's history. *)
HistoryKeepsEveryRecord ==
    AllCompleted =>
        \A user_id \in Users :
            /\ \A c \in Completed(user_id) : Occurrences(c, HistoryOf(user_id)) = 1
            /\ Len(HistoryOf(user_id)) =
                   Min(InitialLength(user_id) + Cardinality(Completed(user_id)),
                       history_cap)
            /\ \A i \in 1..Len(HistoryOf(user_id)) :
                   HistoryOf(user_id)[i] \in AnalyzeIds =>
                       analyzeCalls[HistoryOf(user_id)[i]].user_id = user_id

\* the parts that hold: a call only ever writes to the history of its own
\* user, and a history is not longer than the cap once the calls completed
HistoryOfOwnUserOnly ==
    \A user_id \in Users :
        /\ \A i \in 1..Len(HistoryOf(user_id)) :
               HistoryOf(user_id)[i] \in AnalyzeIds =>
                   analyzeCalls[HistoryOf(user_id)[i]].user_id = user_id
        /\ AllCompleted => Len(HistoryOf(user_id)) <= history_cap

----------------------------------------------------------------------------
(* Further properties of route, over the calls of SpecRoute. *)

\* no Phase-A condition holds: no feature condition, and no configured
\* keyword occurs in the text when case is ignored
NoCrisisCondition(x) ==
    /\ ~FeatureCrisisCondition(x)
    /\ \A i \in 1..Len(crisis_keywords) :
           ~IsSubstring(lower(crisis_keywords[i]), lower(x.text))

\* what route has to return for the accumulated score and the indicators
\* that fired
ByScoreOrCount(result, score, indicators) ==
    IF score >= l2_threshold * 100
       \/ Cardinality({indicators[i] : i \in 1..Len(indicators)}) >= 2
    THEN /\ result.level = "L2_INTERVENTION"
         /\ result.requires_dbt
         /\ ~result.crisis_flag
         /\ result.confidence = Min(score, 10000)
         /\ result.confidence \in 0..10000
    ELSE /\ result.level = "L1_QUICK"
         /\ result.confidence = 8000
         /\ ~result.requires_dbt

(* C16: when no Phase-A crisis condition holds, route returns
   L2_INTERVENTION (requires_dbt, no crisis_flag, confidence the smaller of
   the accumulated score and 1) exactly when the accumulated score reaches
   the L2 threshold or at least two distinct indicators fired, and L1_QUICK
   with confidence 0.8 and without requires_dbt otherwise; every call
   returns one of the three levels. *)
InterventionByScoreOrCount ==
    \A i \in 1..Len(routeCall) :
        /\ routeCall[i].result.level \in {"L1_QUICK", "L2_INTERVENTION", "L3_CRISIS"}
        /\ NoCrisisCondition(routeCall[i].args) =>
               ByScoreOrCount(routeCall[i].result,
                   intervention_score(routeCall[i].args.emotions,
                       routeCall[i].args.audio, routeCall[i].args.video),
                   intervention_indicators(routeCall[i].args.emotions,
                       routeCall[i].args.audio, routeCall[i].args.video))

\* an intervention reached by two indicators whose score is below the
\* threshold, without a crisis condition
InterventionByCountAlone ==
    /\ routeCall # <<>>
    /\ NoCrisisCondition(routeCall[1].args)
    /\ routeCall[1].result.level = "L2_INTERVENTION"
    /\ routeCall[1].result.confidence < l2_threshold * 100
    /\ Len(routeCall[1].result.reason) = 2

----------------------------------------------------------------------------
(* match over rule tables with rules an administrator can create beside the
   seed rules, for the properties of rule evaluation and ranking. *)

\* a rule on the risk level alone
high_risk_only ==
    [id |-> 5, rule_name |-> "high_risk_only", priority |-> 500,
     module_id |-> 2, skill_ids |-> <<3>>, is_active |-> TRUE,
     conditions |-> [risk_level |-> <<"HIGH", "CRITICAL">>]]

\* a rule whose one predicate uses an operator _operators does not have
unknown_operator ==
    [id |-> 6, rule_name |-> "unknown_operator", priority |-> 50,
     module_id |-> 1, skill_ids |-> <<4>>, is_active |-> TRUE,
     conditions |->
        [emotion_conditions |-> <<[emotion |-> "anxiety", operator |-> "approx", value |-> 50]>>]]

RankingRuleTables ==
    {Table({high_arousal_anxiety, impulse_control, interpersonal_conflict,
            low_arousal_default, high_risk_only, unknown_operator}),
     Table({unknown_operator, impulse_control}),
     Table({high_risk_only, interpersonal_conflict, impulse_control}),
     SeedRules}

RankingRequests ==
    [emotions : {<<>>, << <<"anxiety", 70>>, <<"sadness", 20>> >>,
                 << <<"anger", 30>>, <<"anxiety", 50>> >>, << <<"anger", 60>> >>},
     arousal : {30, 80},
     trigger_signals : {[NoSignals EXCEPT !.agitation_level = a, !.self_harm_impulse = s] :
                            a \in {0, 50}, s \in {0, 40, 48}},
     risk_level : {"LOW", "HIGH"}, urgency_score : {20}, user_profile : {<<>>},
     last_skill_used : {""}, context : MatchContexts]

InitRanking ==
    /\ InitEngine
    /\ Idle
    /\ crisis_keywords = DefaultCrisisKeywords
    /\ l2_threshold = 50
    /\ routeCall = <<>>
    /\ skills = SeedSkills
    /\ rules \in RankingRuleTables
    /\ matchCall = <<>>
    /\ settings = DefaultSettings
    /\ recommendCall = <<>>

\* one call per behaviour: match keeps no state between calls
NextRanking ==
    /\ matchCall = <<>>
    /\ \E request \in RankingRequests, max_skills \in {2, MaxSkillsBound} :
          Match(request, max_skills)

SpecRanking == InitRanking /\ [][NextRanking]_vars

\* the active rules all of whose predicates hold for the request
HeldRules(request) == {r \in ActiveRules : RuleHolds(rules[r], request)}

NamesOf(ids) == {rules[r].rule_name : r \in ids}

ListedSkillIds(ids) == UNION {{rules[r].skill_ids[i] : i \in 1..Len(rules[r].skill_ids)} : r \in ids}

\* the result of a match against the rules that hold for its request
OnlyHeldRules(call, held) ==
    /\ \A r \in ActiveRules :
           evaluate_rule(rules[r], build_context(call.request)).matched <=> r \in held
    /\ \A r \in ActiveRules \ held :
           ~InSeq(rules[r].rule_name, call.result.matched_rules)
    /\ held # {} =>
           /\ {call.result.matched_rules[i] : i \in 1..Len(call.result.matched_rules)}
                  = NamesOf(held)
           /\ \A i \in 1..Len(call.result.skills) :
                  call.result.skills[i].skill_id \in ListedSkillIds(held)

(* C19: a rule is matched exactly when every predicate of every condition
   group it has (emotion_conditions, trigger_signals, arousal,
   context_contains, risk_level) holds for the context; a rule with a
   failing predicate or with a predicate whose operator is unknown is
   unmatched, does not appear in matched_rules and gives none of its skill
   ids to the result. *)
MatchedExactlyWhenAllHold ==
    \A i \in 1..Len(matchCall) :
        OnlyHeldRules(matchCall[i], HeldRules(matchCall[i].request))

\* a match in which another rule was matched while the rule with the unknown
\* operator, whose emotion is at the value it names, was not
UnknownOperatorUnmatched ==
    /\ matchCall # <<>>
    /\ \E r \in ActiveRules : rules[r].rule_name = "unknown_operator"
    /\ DictGet(TheMatch.request.emotions, "anxiety") = 50
    /\ TheMatch.result.matched_rules # <<>>
    /\ HeldRules(TheMatch.request) # {}
    /\ ~InSeq("unknown_operator", TheMatch.result.matched_rules)

RuleNamed(name) == CHOOSE r \in DOMAIN rules : rules[r].rule_name = name

\* score of the matched rule of that name
FinalScore(name, request) ==
    evaluate_rule(rules[RuleNamed(name)], build_context(request)).score

\* avg_score: the score without the priority bonus
AverageScore(name, request) ==
    FinalScore(name, request) - rules[RuleNamed(name)].priority * 60

\* matched_rules names rules of the table, not the emotion fallback
RulesRanked(call) ==
    \A i \in 1..Len(call.result.matched_rules) :
        \E r \in ActiveRules : rules[r].rule_name = call.result.matched_rules[i]

(* C20: between two matched rules the one with the strictly higher
   per-condition average score is ranked first; the priority decides the
   order only between rules whose averages are equal, the higher priority
   first. *)
PriorityOnlyBreaksTies ==
    \A c \in 1..Len(matchCall) :
        RulesRanked(matchCall[c]) =>
            \A i, j \in 1..Len(matchCall[c].result.matched_rules) :
                i < j =>
                    /\ AverageScore(matchCall[c].result.matched_rules[i], matchCall[c].request)
                         >= AverageScore(matchCall[c].result.matched_rules[j], matchCall[c].request)
                    /\ AverageScore(matchCall[c].result.matched_rules[i], matchCall[c].request)
                         = AverageScore(matchCall[c].result.matched_rules[j], matchCall[c].request)
                       => rules[RuleNamed(matchCall[c].result.matched_rules[i])].priority
                            >= rules[RuleNamed(matchCall[c].result.matched_rules[j])].priority

\* the part that holds: the rules are ranked by average plus priority / 1000,
\* and by priority when that sum is the same
RankedByScoreWithPriority ==
    \A c \in 1..Len(matchCall) :
        RulesRanked(matchCall[c]) =>
            \A i, j \in 1..Len(matchCall[c].result.matched_rules) :
                i < j =>
                    /\ FinalScore(matchCall[c].result.matched_rules[i], matchCall[c].request)
                         >= FinalScore(matchCall[c].result.matched_rules[j], matchCall[c].request)
                    /\ FinalScore(matchCall[c].result.matched_rules[i], matchCall[c].request)
                         = FinalScore(matchCall[c].result.matched_rules[j], matchCall[c].request)
                       => rules[RuleNamed(matchCall[c].result.matched_rules[i])].priority
                            >= rules[RuleNamed(matchCall[c].result.matched_rules[j])].priority

----------------------------------------------------------------------------
(* SkillMatcher.match between its repository reads, with administrator
   writes committed in between.  Every await of the repository is a query
   of its own: it sees the tables as the last commit left them. *)

MaxWrites == 2

ConcurrentRequests ==
    [emotions : {<< <<"despair", 80>>, <<"sadness", 60>> >>,
                 << <<"anxiety", 70>>, <<"sadness", 20>> >>},
     arousal : {80},
     trigger_signals : {[NoSignals EXCEPT !.agitation_level = 50]},
     risk_level : {"LOW"}, urgency_score : {20}, user_profile : {<<>>},
     last_skill_used : {""}, context : {<<>>}]

InitConcurrent ==
    /\ InitEngine
    /\ crisis_keywords = DefaultCrisisKeywords
    /\ l2_threshold = 50
    /\ routeCall = <<>>
    /\ skills = SeedSkills
    /\ rules \in {SeedRules, Table({})}
    /\ matchCall = <<>>
    /\ settings = DefaultSettings
    /\ recommendCall = <<>>
    /\ conversation_history = <<>>
    /\ analyzeCalls = <<>>
    /\ matchRun = [pc |-> "idle"]

LeaveCalls ==
    UNCHANGED <<riskVars, routerVars, matchCall, settings, recommendCall,
                conversation_history, analyzeCalls>>

\* what a match run in one piece on the tables of this moment returns, added
\* to those of the earlier moments
Serial == matchRun.serial \cup {match(matchRun.request, matchRun.max_skills)}

\* match(request, max_skills) is entered
BeginMatch(request, max_skills) ==
    /\ matchRun.pc = "idle"
    /\ matchRun' = [pc |-> "rules", request |-> request, max_skills |-> max_skills,
                    rule_results |-> <<>>, recommended |-> <<>>, result |-> <<>>,
                    writes |-> 0, written |-> FALSE,
                    serial |-> {match(request, max_skills)}]
    /\ UNCHANGED repoVars
    /\ LeaveCalls

\* rules = await self.repository.get_all_rules(active_only=True), and the
\* evaluation of every rule
ReadRules ==
    /\ matchRun.pc = "rules"
    /\ matchRun' = [matchRun EXCEPT
            !.pc = "fallback", !.written = FALSE, !.serial = Serial,
            !.rule_results = SelectSeq(Evaluated(get_all_rules,
                                                 build_context(matchRun.request)),
                                       LAMBDA r : r.matched)]
    /\ UNCHANGED repoVars
    /\ LeaveCalls

\* rule_results = await self._fallback_emotion_match(context) when no rule
\* matched, and the sort
ReadEmotionSkills ==
    /\ matchRun.pc = "fallback"
    /\ matchRun' = [matchRun EXCEPT
            !.pc = "skills", !.written = FALSE, !.serial = Serial,
            !.rule_results = SortByScore(OrFallback(matchRun.rule_results,
                                                    build_context(matchRun.request)))]
    /\ UNCHANGED repoVars
    /\ LeaveCalls

\* skills = await self.repository.get_skills_by_ids(unique_skill_ids), and
\* their conversion
ReadSkills ==
    /\ matchRun.pc = "skills"
    /\ matchRun' = [matchRun EXCEPT
            !.pc = "fallbacks", !.written = FALSE, !.serial = Serial,
            !.recommended = Recommended(
                get_skills_by_ids(Take(Unique(SkillIds(matchRun.rule_results)),
                                       matchRun.max_skills)),
                build_context(matchRun.request), matchRun.rule_results)]
    /\ UNCHANGED repoVars
    /\ LeaveCalls

\* fallbacks = await self._get_fallback_skills(...), and the return
ReadFallbacks ==
    /\ matchRun.pc = "fallbacks"
    /\ matchRun' = [matchRun EXCEPT
            !.pc = "done", !.written = FALSE, !.serial = Serial,
            !.result = MatchResult(matchRun.recommended,
                                   FirstModuleId(matchRun.rule_results),
                                   matchRun.rule_results,
                                   build_context(matchRun.request))]
    /\ UNCHANGED repoVars
    /\ LeaveCalls

\* a write is committed while the match is in progress; the next read of the
\* match sees the tables it leaves
Commit ==
    /\ matchRun.pc \in {"rules", "fallback", "skills", "fallbacks"}
    /\ ~matchRun.written
    /\ matchRun.writes < MaxWrites
    /\ matchRun' = [matchRun EXCEPT !.writes = @ + 1, !.written = TRUE]
    /\ LeaveCalls

delete_skill(skill_id) ==
    /\ skill_id \in DOMAIN skills
    /\ skills' = [i \in DOMAIN skills \ {skill_id} |-> skills[i]]
    /\ UNCHANGED rules
    /\ Commit

toggle_skill_active(skill_id) ==
    /\ skill_id \in DOMAIN skills
    /\ skills' = [skills EXCEPT ![skill_id].is_active = ~@]
    /\ UNCHANGED rules
    /\ Commit

\* update_rule(rule_id, skill_ids=skill_ids)
update_rule(rule_id, skill_ids) ==
    /\ rule_id \in DOMAIN rules
    /\ rules' = [rules EXCEPT ![rule_id].skill_ids = skill_ids]
    /\ UNCHANGED skills
    /\ Commit

delete_rule(rule_id) ==
    /\ rule_id \in DOMAIN rules
    /\ rules' = [i \in DOMAIN rules \ {rule_id} |-> rules[i]]
    /\ UNCHANGED skills
    /\ Commit

toggle_rule_active(rule_id) ==
    /\ rule_id \in DOMAIN rules
    /\ rules' = [rules EXCEPT ![rule_id].is_active = ~@]
    /\ UNCHANGED skills
    /\ Commit

NextConcurrent ==
    \/ \E request \in ConcurrentRequests : BeginMatch(request, 2)
    \/ ReadRules
    \/ ReadEmotionSkills
    \/ ReadSkills
    \/ ReadFallbacks
    \/ \E skill_id \in DOMAIN skills : delete_skill(skill_id)
    \/ \E skill_id \in DOMAIN skills : toggle_skill_active(skill_id)
    \/ \E rule_id \in DOMAIN rules : update_rule(rule_id, <<2>>)
    \/ \E rule_id \in DOMAIN rules : delete_rule(rule_id)
    \/ \E rule_id \in DOMAIN rules : toggle_rule_active(rule_id)

SpecConcurrent == InitConcurrent /\ [][NextConcurrent]_vars

(* C15: a match that runs while administrator writes are committed works on
   a consistent snapshot: the MatchResult it returns is the one the same
   match gives when run in one piece before or after each of the writes,
   never a mixture of reads from before a write and reads from after it. *)
MatchOnSnapshot ==
    matchRun.pc = "done" => matchRun.result \in matchRun.serial

\* the part that holds: with no write committed in between, the reads of a
\* match put together are the match run in one piece
MatchAloneIsSerial ==
    matchRun.pc = "done" /\ matchRun.writes = 0 => matchRun.result \in matchRun.serial

----------------------------------------------------------------------------
(* Further properties of match, over the calls of SpecRanking and
   SpecMatch. *)

\* the ids the matched rules list, in the order of matched_rules
RankedSkillIds(call) ==
    Concat([i \in 1..Len(call.result.matched_rules) |->
               rules[RuleNamed(call.result.matched_rules[i])].skill_ids])

\* the first max_skills distinct ids of them
SelectedSkillIds(call) == Take(Unique(RankedSkillIds(call)), call.max_skills)

AllInRepository(ids) == \A i \in 1..Len(ids) : ids[i] \in DOMAIN skills

(* C21: the skills of a MatchResult are the first max_skills distinct ids of
   the matched rules' skill-id lists, concatenated in descending score
   order, and they appear in MatchResult.skills in that order, the skill of
   the best rule first (stated here for selected ids that the repository
   all has). *)
SkillsInRankOrder ==
    \A c \in 1..Len(matchCall) :
        RulesRanked(matchCall[c]) /\ AllInRepository(SelectedSkillIds(matchCall[c])) =>
            SkillIdsOf(matchCall[c].result) = SelectedSkillIds(matchCall[c])

\* the part that holds: the skills returned are the selected ids the
\* repository has, in some order
SkillsAreSelectedIds ==
    \A c \in 1..Len(matchCall) :
        RulesRanked(matchCall[c]) =>
            {matchCall[c].result.skills[i].skill_id :
                 i \in 1..Len(matchCall[c].result.skills)}
              = {SelectedSkillIds(matchCall[c])[i] :
                     i \in 1..Len(SelectedSkillIds(matchCall[c]))} \cap DOMAIN skills

(* C28: a skill whose is_active flag is false is never recommended: no
   MatchResult.skills entry refers to an inactive skill, even when an
   active rule still lists that skill's id. *)
NoInactiveSkillMatched ==
    \A c \in 1..Len(matchCall) :
        \A i \in 1..Len(matchCall[c].result.skills) :
            skills[matchCall[c].result.skills[i].skill_id].is_active

\* the part that holds: a skill reached through the emotion fallback alone
\* is active
EmotionFallbackSkillsActive ==
    \A c \in 1..Len(matchCall) :
        ~RulesRanked(matchCall[c]) =>
            \A i \in 1..Len(matchCall[c].result.skills) :
                skills[matchCall[c].result.skills[i].skill_id].is_active

(* C29: if at least one matched rule lists a skill id that exists in the
   repository, match with max_skills >= 1 returns at least one skill; ids
   of higher-ranked rules that refer to deleted skills do not use up the
   max_skills slots. *)
ExistingSkillReturned ==
    \A c \in 1..Len(matchCall) :
        (/\ matchCall[c].max_skills >= 1
         /\ RulesRanked(matchCall[c])
         /\ \E i \in 1..Len(RankedSkillIds(matchCall[c])) :
                RankedSkillIds(matchCall[c])[i] \in DOMAIN skills)
            => matchCall[c].result.skills # <<>>

\* the part that holds: an existing id among the selected ones is returned
SelectedExistingSkillReturned ==
    \A c \in 1..Len(matchCall) :
        (/\ RulesRanked(matchCall[c])
         /\ \E i \in 1..Len(SelectedSkillIds(matchCall[c])) :
                SelectedSkillIds(matchCall[c])[i] \in DOMAIN skills)
            => matchCall[c].result.skills # <<>>

(* C27: the recommended_skills of every DBTRecommendation returned by
   recommend has at most max_skills_per_recommendation entries and pairwise
   distinct skill ids, whichever stage produced them, also when the LLM
   edge-case classifier returns two names that resolve to the same skill. *)
RecommendedDistinctWithinMax ==
    recommendCall # <<>> =>
        /\ Len(TheRecommend.result.recommended_skills)
              <= settings.max_skills_per_recommendation
        /\ \A i, j \in 1..Len(TheRecommend.result.recommended_skills) :
               TheRecommend.result.recommended_skills[i].skill_id
                 = TheRecommend.result.recommended_skills[j].skill_id => i = j

\* the part that holds: no recommendation has more than two skills, the
\* number of names kept of the classifier's answer
RecommendedAtMostTwo ==
    recommendCall # <<>> => Len(TheRecommend.result.recommended_skills) <= 2

----------------------------------------------------------------------------
(* The guidance strategy of recommend, over requests at and around the
   thresholds of urgency and arousal. *)

GuidanceRequests ==
    [emotions : RecommendEmotions, arousal : {30, 70, 71},
     trigger_signals : {NoSignals},
     risk_level : {"LOW", "MEDIUM", "HIGH", "CRITICAL"},
     urgency_score : {20, 60, 61, 70, 71},
     user_profile : {<<>>}, last_skill_used : {""}, context : {<<>>}]

\* one call per behaviour, the LLM not answering
NextGuidance ==
    /\ recommendCall = <<>>
    /\ \E request \in GuidanceRequests :
          Recommend(request, [kind |-> "exception", content |-> <<>>],
                    [kind |-> "exception", content |-> <<>>])

SpecGuidance == InitRecommend /\ [][NextGuidance]_vars

TheStrategy == TheRecommend.result.guidance_strategy

HighOrCritical(risk_level) == risk_level \in {"HIGH", "CRITICAL"}

(* C23: the GuidanceStrategy is this function of (risk, urgency, arousal):
   approach is SKILL_ORIENTED exactly when risk is neither HIGH nor CRITICAL
   and urgency > 0.7, else EMPATHY_FIRST; intensity is CRISIS_PRIORITY if
   CRITICAL, else STANDARD_TRAINING if HIGH or urgency > 0.6, else
   LIGHT_REMINDER; tone is CALM if arousal > 0.7, else WARM if risk is HIGH
   or CRITICAL, else ENCOURAGING. *)
GuidanceAsSpecified ==
    recommendCall # <<>> =>
        /\ TheStrategy.approach
             = (IF ~HighOrCritical(TheRecommend.request.risk_level)
                   /\ TheRecommend.request.urgency_score > 70
                THEN "SKILL_ORIENTED" ELSE "EMPATHY_FIRST")
        /\ TheStrategy.intensity
             = (CASE TheRecommend.request.risk_level = "CRITICAL" -> "CRISIS_PRIORITY"
                  [] TheRecommend.request.risk_level # "CRITICAL"
                     /\ (TheRecommend.request.risk_level = "HIGH"
                         \/ TheRecommend.request.urgency_score > 60) -> "STANDARD_TRAINING"
                  [] OTHER -> "LIGHT_REMINDER")
        /\ TheStrategy.tone
             = (CASE TheRecommend.request.arousal > 70 -> "CALM"
                  [] TheRecommend.request.arousal <= 70
                     /\ HighOrCritical(TheRecommend.request.risk_level) -> "WARM"
                  [] OTHER -> "ENCOURAGING")

\* a call at the arousal threshold and above the urgency threshold
GuidanceAtThresholds ==
    /\ recommendCall # <<>>
    /\ TheRecommend.request.arousal = 70
    /\ TheRecommend.request.urgency_score = 71
    /\ TheStrategy.approach = "SKILL_ORIENTED"
    /\ TheStrategy.intensity = "STANDARD_TRAINING"
    /\ TheStrategy.tone = "ENCOURAGING"

(* C24: key_points never has more than 5 entries; when risk is CRITICAL its
   first entry is the confirm-user-safety point, and when risk is HIGH the
   continue-monitoring point is its last entry: the cap of 5 never
   truncates either safety entry, for any recommended skill. *)
SafetyPointsKept ==
    recommendCall # <<>> =>
        /\ Len(TheStrategy.key_points) <= 5
        /\ TheRecommend.request.risk_level = "CRITICAL" =>
               /\ TheStrategy.key_points # <<>>
               /\ TheStrategy.key_points[1] = <<"confirm_safety", "">>
        /\ TheRecommend.request.risk_level = "HIGH" =>
               /\ TheStrategy.key_points # <<>>
               /\ TheStrategy.key_points[Len(TheStrategy.key_points)]
                    = <<"keep_watching", "">>

\* a HIGH call whose points fill the cap, the monitoring point the fifth
MonitoringPointIsFifth ==
    /\ recommendCall # <<>>
    /\ TheRecommend.request.risk_level = "HIGH"
    /\ Len(TheStrategy.key_points) = 5
    /\ TheStrategy.key_points[5] = <<"keep_watching", "">>

----------------------------------------------------------------------------
(* The emotion history of one RiskAssessmentEngine, on a fresh engine and on
   one that has served max_history - 1 calls, whose callers go on changing
   the dicts they passed. *)

MaxHistoryCalls == 3

\* the vectors of the calls served before: call i had sadness i / 100
OldVectors(n) == [i \in 1..n |-> [ZeroEmotions EXCEPT !["sadness"] = i]]

HistoryInputs ==
    { [emotions |-> [ZeroEmotions EXCEPT !["sadness"] = sa, !["self_harm"] = sh],
       slope    |-> 0,
       context  |-> {}] : sa \in {0, 100}, sh \in {0, 80} }

\* analyzeCalls holds the dicts callers have changed since their call
InitHistory ==
    /\ emotion_history \in {<<>>, OldVectors(max_history - 1)}
    /\ riskCalls = <<>>
    /\ crisis_keywords = DefaultCrisisKeywords
    /\ l2_threshold = 50
    /\ routeCall = <<>>
    /\ InitDBT
    /\ Idle

HistoryEvaluate ==
    /\ Len(riskCalls) < MaxHistoryCalls
    /\ \E x \in HistoryInputs : EvaluateRisk(x)

\* the dict the caller of call i holds now
CallerDict(i) ==
    IF i \in DOMAIN analyzeCalls THEN analyzeCalls[i] ELSE riskCalls[i].args.emotions

\* the caller of call i changes the dict it passed, after the call
MutateCallerDict(i) ==
    /\ i \in 1..Len(riskCalls)
    /\ i \notin DOMAIN analyzeCalls
    /\ analyzeCalls' = [j \in DOMAIN analyzeCalls \cup {i} |->
                           IF j = i THEN [CallerDict(i) EXCEPT !["anger"] = 90]
                           ELSE analyzeCalls[j]]
    /\ UNCHANGED <<riskVars, routerVars, dbtVars, conversation_history, matchRun>>

NextHistory == HistoryEvaluate \/ \E i \in 1..MaxHistoryCalls : MutateCallerDict(i)

SpecHistory == InitHistory /\ [][NextHistory]_vars

\* the vectors of the calls before the first call of the behaviour
PriorVectors ==
    IF Len(emotion_history) > MaxHistoryCalls THEN OldVectors(max_history - 1) ELSE <<>>

\* the vectors of all calls so far, as they were passed
PassedVectors ==
    PriorVectors \o [i \in 1..Len(riskCalls) |-> riskCalls[i].args.emotions]

LastOf(s, n) == SubSeq(s, Max(Len(s) - n, 0) + 1, Len(s))

(* C26: after any sequence of n evaluate_risk calls on one engine its
   emotion_history holds exactly the emotion vectors of the last
   min(n, 100) calls in call order (the oldest evicted first), its length
   never exceeds 100 between calls, and each stored vector is a copy that a
   later change of the caller's dict does not change. *)
HistoryIsLastCalls ==
    /\ Len(emotion_history) <= 100
    /\ Len(emotion_history) = Min(Len(PassedVectors), 100)
    /\ emotion_history = LastOf(PassedVectors, 100)

\* the oldest vector has been evicted, twice, and a caller has changed the
\* dict whose copy is the last entry
OldestEvicted ==
    /\ Len(PassedVectors) = 101
    /\ Len(emotion_history) = 100
    /\ emotion_history[1] = OldVectors(max_history - 1)[2]
    /\ Len(riskCalls) \in DOMAIN analyzeCalls
    /\ CallerDict(Len(riskCalls)) # emotion_history[100]

----------------------------------------------------------------------------
(* EmotionRecognitionEngine.analyze as one turn  (src/core/emotion_engine.py):
   route, calculate_emotion_slope and analyze_conversation_context on the
   user's recorded turns, evaluate_risk, and the turn recorded.  The turns
   are text-only; the emotion vector is the extractor's output. *)

MaxTurns == 2

negative_emotions == <<"sadness", "anxiety", "fear", "despair", "anger">>

\* record.get(e, 0.0) on a record of the history
RecordGet(record, e) == IF e \in DOMAIN record THEN record[e] ELSE 0

\* sum(record.get(e, 0.0) for e in negative_emotions)
negative_score(record) ==
    RecordGet(record, negative_emotions[1]) + RecordGet(record, negative_emotions[2])
    + RecordGet(record, negative_emotions[3]) + RecordGet(record, negative_emotions[4])
    + RecordGet(record, negative_emotions[5])

RECURSIVE SeqSum(_)
SeqSum(s) == IF s = <<>> THEN 0 ELSE Head(s) + SeqSum(Tail(s))

\* np.polyfit(x, y, 1)[0] for x = 0 .. n-1 is slope_numerator / slope_denominator
slope_numerator(y) ==
    Len(y) * SeqSum([i \in 1..Len(y) |-> (i - 1) * y[i]])
    - SeqSum([i \in 1..Len(y) |-> i - 1]) * SeqSum(y)

slope_denominator(n) ==
    n * SeqSum([i \in 1..n |-> (i - 1) * (i - 1)])
    - SeqSum([i \in 1..n |-> i - 1]) * SeqSum([i \in 1..n |-> i - 1])

\* the scores of the last five records
recent_scores(history) ==
    [i \in 1..Min(Len(history), 5) |->
        negative_score(history[Len(history) - Min(Len(history), 5) + i])]

\* calculate_emotion_slope, in 1/100 (rounded down)
calculate_emotion_slope(history) ==
    IF Len(history) < 2 THEN 0
    ELSE slope_numerator(recent_scores(history))
            \div slope_denominator(Min(Len(history), 5))

\* slope > 0.1 on the slope before rounding
slope_above_tenth(history) ==
    slope_numerator(recent_scores(history))
        > 10 * slope_denominator(Min(Len(history), 5))

\* 不行, 没用, 失败, 糟糕, 差劲, 笨
self_negative_words ==
    {<<"bu", "xing">>, <<"mei", "yong">>, <<"shi", "bai">>, <<"zao", "gao">>,
     <<"cha", "jin">>, <<"ben">>}

\* 帮帮我, 不知道怎么办, 求助, 怎么办
help_words ==
    {<<"bang", "bang", "wo">>, <<"bu", "zhi", "dao", "zen", "me", "ban">>,
     <<"qiu", "zhu">>, <<"zen", "me", "ban">>}

\* text.split(): the texts of the model hold no white space
split_words(text) == IF text = <<>> THEN {} ELSE {text}

\* the texts of the last three records
recent_texts(conversation) ==
    [i \in 1..3 |-> conversation[Len(conversation) - 3 + i].text]

\* analyze_conversation_context: the set of the patterns that are True
analyze_conversation_context(conversation) ==
    IF Len(conversation) < 3 THEN {}
    ELSE   {f \in {"repetition_pattern"} :
               \E i, j \in 1..3 :
                   i < j /\ split_words(recent_texts(conversation)[i])
                              \cap split_words(recent_texts(conversation)[j]) # {}}
      \cup {f \in {"escalation_pattern"} :
               Len(conversation) >= 5 /\ slope_above_tenth(conversation)}
      \cup {f \in {"self_critical_pattern"} :
               \E i \in 1..3 : \E w \in self_negative_words :
                   IsSubstring(w, recent_texts(conversation)[i])}
      \cup {f \in {"help_seeking_pattern"} :
               \E i \in 1..3 : \E w \in help_words :
                   IsSubstring(w, recent_texts(conversation)[i])}

\* self.conversation_history[user_id], an empty list when the user is new
history_of(user_id) ==
    IF user_id \in DOMAIN conversation_history THEN conversation_history[user_id]
    ELSE <<>>

\* the append of step 7 and the cut to history_cap
recorded(conversation, record) ==
    IF Len(conversation) + 1 > history_cap THEN Tail(Append(conversation, record))
    ELSE Append(conversation, record)

\* analyze(text, user_id), the extractor giving text_emotion
Analyze(user_id, text, text_emotion) ==
    /\ routeCall' = Append(routeCall,
            [args   |-> [text |-> text, emotions |-> text_emotion,
                         audio |-> NoFeatures, video |-> NoFeatures],
             result |-> route(text, text_emotion, NoFeatures, NoFeatures)])
    /\ riskCalls' = Append(riskCalls,
            [args   |-> [emotions |-> text_emotion,
                         slope    |-> calculate_emotion_slope(history_of(user_id)),
                         context  |-> analyze_conversation_context(history_of(user_id))],
             result |-> InterventionTrigger(text_emotion,
                            calculate_emotion_slope(history_of(user_id)),
                            analyze_conversation_context(history_of(user_id)))])
    /\ emotion_history' = record_emotion_history(emotion_history, text_emotion)
    /\ conversation_history' =
           [u \in DOMAIN conversation_history \cup {user_id} |->
               IF u = user_id
               THEN recorded(history_of(user_id),
                             [timestamp |-> Len(riskCalls) + 1, text |-> text,
                              emotions |-> text_emotion])
               ELSE conversation_history[u]]
    /\ UNCHANGED <<crisis_keywords, l2_threshold, dbtVars, analyzeCalls, matchRun>>

\* the four turns "known" has had: sadness 0.05, 0.25, 0.45, 0.65
RisingTurns ==
    [i \in 1..4 |-> [timestamp |-> i - 5, text |-> <<"ni", "hao">>,
                     emotions  |-> [ZeroEmotions EXCEPT !["sadness"] = 20 * i - 15]]]

TurnTexts == {<<"ni", "hao">>, <<"wo", "mei", "yong">>}

TurnEmotions ==
    { [ZeroEmotions EXCEPT !["sadness"] = 20],
      [ZeroEmotions EXCEPT !["sadness"] = 85],
      [ZeroEmotions EXCEPT !["sadness"] = 95, !["anxiety"] = 20],
      [ZeroEmotions EXCEPT !["despair"] = 45],
      [ZeroEmotions EXCEPT !["self_harm"] = 80] }

\* "new" has had no turn; the engines have served the four turns of "known"
InitTurn ==
    /\ emotion_history = [i \in 1..4 |-> RisingTurns[i].emotions]
    /\ riskCalls = <<>>
    /\ crisis_keywords = DefaultCrisisKeywords
    /\ l2_threshold = 50
    /\ routeCall = <<>>
    /\ InitDBT
    /\ conversation_history = [user_id \in {"known"} |-> RisingTurns]
    /\ analyzeCalls = <<>>
    /\ matchRun = [pc |-> "idle"]

NextTurn ==
    /\ Len(riskCalls) < MaxTurns
    /\ \E user_id \in Users, text \in TurnTexts, text_emotion \in TurnEmotions :
          Analyze(user_id, text, text_emotion)

SpecTurn == InitTurn /\ [][NextTurn]_vars

\* the user of turn k of the behaviour, and the turns recorded before it
TurnUser(k) ==
    CHOOSE u \in DOMAIN conversation_history :
        \E p \in 1..Len(conversation_history[u]) :
            conversation_history[u][p].timestamp = k

TurnsBefore(k) ==
    SelectSeq(conversation_history[TurnUser(k)], LAMBDA r : r.timestamp < k)

\* the negative-emotion sum of a recorded turn
NegativeSum(record) ==
    record.emotions["sadness"] + record.emotions["anxiety"] + record.emotions["fear"]
    + record.emotions["despair"] + record.emotions["anger"]

\* the sum strictly increased over the last (at most five) recorded turns
StrictlyRising(turns) ==
    /\ Len(turns) >= 2
    /\ \A i \in (Max(Len(turns) - 5, 0) + 1)..(Len(turns) - 1) :
           NegativeSum(turns[i]) < NegativeSum(turns[i + 1])

(* C25: in the analyze pipeline the slope handed to evaluate_risk is the
   trend of the user's recorded turns: if the negative-emotion sum strictly
   increased over the last recorded turns (at least 2, at most 5
   considered) the slope computed for the next turn is > 0, and with at
   least 5 recorded turns and slope > 0.1 the escalation flag is set; with
   fewer than 2 recorded turns the slope is 0. *)
SlopeFollowsRecordedTurns ==
    \A k \in 1..Len(riskCalls) :
        /\ StrictlyRising(TurnsBefore(k)) => riskCalls[k].args.slope > 0
        /\ Len(TurnsBefore(k)) >= 5 /\ riskCalls[k].args.slope > 10 =>
               "escalation_pattern" \in riskCalls[k].args.context
        /\ Len(TurnsBefore(k)) < 2 => riskCalls[k].args.slope = 0

\* the part that holds: the slope handed over is 0 and the escalation flag
\* is not set, whatever the recorded turns are
SlopeHandedIsZero ==
    \A k \in 1..Len(riskCalls) :
        /\ riskCalls[k].args.slope = 0
        /\ "escalation_pattern" \notin riskCalls[k].args.context

\* the emotion conditions of the crisis phase of route
EmotionCrisisCondition(emotions) ==
    \/ emotions["self_harm"] > 50
    \/ emotions["despair"] > 40
    \/ emotions["emptiness"] > 30 /\ emotions["despair"] > 30
    \/ emotions["self_harm"] > 30 /\ emotions["despair"] > 30

(* C30: routing and risk assessment agree on crises within one analyze
   turn: whenever route returns L3_CRISIS because of the emotion features
   (self_harm > 0.5, despair > 0.4, or one of the combined conditions),
   evaluate_risk on the same emotion features returns triggered = true with
   a risk level of at least MEDIUM. *)
CrisisRouteTriggersIntervention ==
    \A k \in 1..Len(riskCalls) :
        routeCall[k].result.level = "L3_CRISIS"
        /\ EmotionCrisisCondition(routeCall[k].args.emotions) =>
            /\ riskCalls[k].args.emotions = routeCall[k].args.emotions
            /\ riskCalls[k].result.triggered
            /\ RiskRank(riskCalls[k].result.risk_level) >= RiskRank("MEDIUM")

\* the part that holds: both are given the same emotion features, and a
\* turn with self_harm above 0.7 is a crisis route of level MEDIUM at least
StrongSelfHarmIsMediumAtLeast ==
    \A k \in 1..Len(riskCalls) :
        /\ riskCalls[k].args.emotions = routeCall[k].args.emotions
        /\ routeCall[k].args.emotions["self_harm"] > 70 =>
               /\ routeCall[k].result.level = "L3_CRISIS"
               /\ RiskRank(riskCalls[k].result.risk_level) >= RiskRank("MEDIUM")

----------------------------------------------------------------------------
(* The fallback names of match, on the seeded repository and on one where
   an administrator has created a skill named 深呼吸 in the mindfulness
   module (create_skill), which the rule low_arousal_default lists. *)

DeepBreathing ==
    [id |-> 5, module_id |-> 1, name |-> "deep_breathing", name_en |-> "Deep Breathing",
     trigger_emotions |-> <<"anxiety">>, difficulty_level |-> 1, is_active |-> TRUE]

InitFallback ==
    /\ InitEngine
    /\ Idle
    /\ crisis_keywords = DefaultCrisisKeywords
    /\ l2_threshold = 50
    /\ routeCall = <<>>
    /\ skills \in {SeedSkills, Table({TIPP, STOP, RadicalAcceptance, Observe, DeepBreathing})}
    /\ rules = SeedRules
    /\ matchCall = <<>>
    /\ settings = DefaultSettings
    /\ recommendCall = <<>>

\* one call per behaviour: match keeps no state between calls
NextFallback ==
    /\ matchCall = <<>>
    /\ \E request \in RankingRequests, max_skills \in {1, 2} :
          Match(request, max_skills)

SpecFallback == InitFallback /\ [][NextFallback]_vars

RecommendedNames(result) == {result.skills[i].skill_name : i \in 1..Len(result.skills)}

\* the module match looks for fallbacks in: that of the first rule result
\* that has one, 0 when there is none
FallbackModuleId(call) == FirstModuleId(RuleResults(build_context(call.request)))

\* the active skills of that module that are not recommended
OtherModuleSkills(call) ==
    {s \in DOMAIN skills :
        /\ skills[s].is_active
        /\ skills[s].module_id = FallbackModuleId(call)
        /\ \A i \in 1..Len(call.result.skills) : call.result.skills[i].skill_id # s}

\* at most 2 names, those of other skills of the module first, the universal
\* names only when fewer than 2 were found
ModuleFirstAtMostTwo(call) ==
    /\ Len(call.result.fallbacks) <= 2
    /\ \A i \in 1..Len(call.result.fallbacks) :
           \/ \E s \in OtherModuleSkills(call) : skills[s].name = call.result.fallbacks[i]
           \/ /\ Cardinality(OtherModuleSkills(call)) < i
              /\ \E j \in 1..Len(universal_skills) :
                     universal_skills[j] = call.result.fallbacks[i]

(* C22: the fallback names of a MatchResult exclude already-recommended
   skills: no name in fallbacks equals the name of a skill in
   MatchResult.skills, the list has at most 2 names, and it is filled from
   other skills of the same module first and from the fixed universal names
   only when fewer than 2 were found. *)
FallbacksExcludeRecommended ==
    \A c \in 1..Len(matchCall) :
        /\ \A i \in 1..Len(matchCall[c].result.fallbacks) :
               matchCall[c].result.fallbacks[i] \notin RecommendedNames(matchCall[c].result)
        /\ ModuleFirstAtMostTwo(matchCall[c])

\* the part that holds: at most 2 names, the module's other skills first,
\* and no fallback taken from the module is a recommended skill
FallbacksModuleFirst ==
    \A c \in 1..Len(matchCall) : ModuleFirstAtMostTwo(matchCall[c])

====
